---- MODULE Spec2Model ----
(***************************************************************************)
(* Resource cache (ResourceSystem / ResourceManager) and frame loop        *)
(* (Renderer) of sprocket's Vulkan backend.                                *)
(*                                                                         *)
(* An Arc<T> allocation is named by its kind, its path and a number `gen`   *)
(* that tells the allocations of one path apart: like an address, it is    *)
(* the smallest number no live allocation of that path uses, and is used   *)
(* again after the drop.  The strong count of an allocation is derived     *)
(* from the places that hold a clone of it: the live map, the garbage      *)
(* list, a Material's fields, the handles callers keep, the Renderer's     *)
(* Data.  An allocation whose strong count reaches zero is dropped, which  *)
(* destroys the GPU object.                                                *)
(*                                                                         *)
(* Spec is the ResourceManager driven by its callers; SpecFrame is the     *)
(* Renderer's frame loop over the same manager, with the GPU completing    *)
(* the submitted batches on its own.                                       *)
(***************************************************************************)
EXTENDS Integers, Sequences, FiniteSets, TLC

\* ------------------------------------------------------------------ bounds
MaxSteps == 4       \* operations the manager's callers make over a run
MaxFrames == 3      \* draw_frame and collect_garbage calls Application::run makes
MaxHandles == 1     \* handles callers keep at the same time
MaxCycles == 2      \* largest garbage_cycles argument of the manager's callers
MaxSets == 1        \* set_swapchain calls made by the manager's callers
MaxOps == 3         \* calls the concurrent threads make in all
MaxModes == 2       \* present modes a surface lists
MaxExtent == 2      \* largest width and height of a surface's extents
MaxBindings == 2    \* bindings of a descriptor set layout
MaxSupplied == 2    \* descriptor sets, and resources of each type, passed to write
MaxEntities == 2    \* entities with a component in a ComponentArray
MaxCalls == 4       \* calls made on a ComponentArray
MaxTime == 4        \* ticks of the clock a Timer is watched for
MaxTarget == 2      \* largest target duration of a Timer
MaxImages == 4      \* largest number of images of a swapchain
MaxLockCalls == 3   \* calls the threads sharing a ResourceManager make in all
MaxCount == 5       \* largest image count in a surface's capabilities
MaxIds == 2         \* entity ids an EntityManager hands out numerically
MaxEntityCalls == 6 \* calls made on an EntityManager

\* ------------------------------------------------- resource kinds and files
Kinds == {"texture", "model", "renderpass", "pipeline", "material"}
Paths == {"a", "b"}
PathSeq == <<"a", "b">>
PathOrders == {<<"a", "b">>, <<"b", "a">>}
\* the order ResourceManager::collect_garbage visits the kinds in
KindSeq == <<"texture", "model", "renderpass", "pipeline", "material">>
NoObj == 0
NoSwapchain == 0
\* std::u32::MAX, the largest value of an extent's width and of a
\* cycles_remaining; the unsigned integers of the model have 31 bits
U32_MAX == 2147483647
\* the render pass a pipeline was created against has been destroyed
Stale == -1

\* MaterialSpec read from the material file at `p`
MaterialSpec(p) ==
    IF p = "a" THEN [pipeline |-> "a", textures |-> <<"a">>]
               ELSE [pipeline |-> "a", textures |-> <<>>]

\* the files there are of each kind
Files(k) == IF k = "material" THEN {"a", "b"} ELSE {"a"}
\* the kinds the manager's callers load directly
CallerKinds == Kinds

\* PipelineSpec read from the pipeline file at `p`
PipelineSpec(p) == [renderpass |-> "a"]

\* the fallible steps of the loaders: "read" is the file read / parse in
\* T::load, "pre" a step of T::new before it asks the manager for other
\* resources, "post" a step after that
NoFault == [kind |-> "none", path |-> "a", stage |-> "read"]
Faults ==
    {NoFault}
    \cup [kind : {"texture", "model"}, path : Paths, stage : {"read"}]
    \cup [kind : {"renderpass", "material"}, path : Paths, stage : {"read", "post"}]
    \cup [kind : {"pipeline"}, path : Paths, stage : {"read", "pre", "post"}]

Hit(f, k, p, s) == f.kind = k /\ f.path = p /\ f.stage = s

\* the resources T::load of (k, p) asks the manager for, itself included
Needs(k, p) ==
    LET rp(q) == {<<"renderpass", PipelineSpec(q).renderpass>>}
        pl(q) == {<<"pipeline", q>>} \cup rp(q)
    IN  CASE k = "pipeline" -> pl(p)
          [] k = "material" ->
                {<<k, p>>} \cup pl(MaterialSpec(p).pipeline)
                \cup {<<"texture", MaterialSpec(p).textures[i]>> :
                        i \in DOMAIN MaterialSpec(p).textures}
          [] OTHER -> {<<k, p>>}

FaultsOf(k, p) == {f \in Faults : f = NoFault \/ <<f.kind, f.path>> \in Needs(k, p)}

\* ------------------------------------------------------------ the renderer
MAX_FRAMES_IN_FLIGHT == 2
\* the images of a swapchain
image_count == 3
Slots == 0..MAX_FRAMES_IN_FLIGHT - 1
Images == 0..image_count - 1
\* vk::Fence::null()
NullFence == -1
\* the paths create_data loads its material, render pass and model from
DefaultPath == "a"
\* a fence created unsignaled
create_fence_unsignaled == FALSE
\* vulkan::create_fence: the fence is created with FenceCreateFlags::SIGNALED
create_fence == TRUE
\* vulkan::create_semaphore: the semaphore is created unsignaled
create_semaphore == FALSE
\* Data before Renderer::new
NoData == [swapchain |-> NoSwapchain, material |-> NoObj, model |-> NoObj,
           renderpass |-> NoObj]
NoCalls == [recreate |-> 0, record |-> 0, reset |-> 0, submit |-> 0, present |-> 0]

VARIABLES
    swapchain,   \* ResourceManager.swapchain: NoSwapchain or the swapchain's number
    resources,   \* ResourceSystem.resources of each kind: path -> gen of the entry
    garbage,     \* ResourceSystem.garbage of each kind
    heap,        \* the Arc allocations there are, by kind and path
    handles,     \* allocations callers of load / get keep a handle to
    steps,       \* the number of operations made so far
    panicked,    \* the thread has panicked
    lastLoaded,  \* history: what the last successful load(p) returned, cleared
                 \* when p is evicted or the manager is recreated
    last,        \* history: the operation of the last step
    pc,               \* where the Renderer is in draw_frame
    current_frame,    \* Renderer.current_frame
    frame_count,      \* Renderer.frame_count
    in_flight_fences, \* Renderer.in_flight_fences: slot -> the fence is signaled
    images_in_flight, \* Renderer.images_in_flight: image -> slot of the fence
    image_index,      \* the image draw_frame acquired
    data,             \* Renderer.data
    acquired,         \* the images of Data.swapchain acquired and not presented
    pending,          \* the batches submitted and not yet completed, oldest first
    device_lost,      \* the device is lost: every later GPU call fails
    calls,            \* history: the calls the current draw_frame has made
    stale,            \* history: acquire_next_image told the current draw_frame
                      \* that the swapchain is out of date or suboptimal
    image_available   \* image_available_semaphores: slot -> the semaphore has a
                      \* signal that no submit has waited for

\* two ResourceSystems shared by several threads
VARIABLES
    sys_resources,  \* ResourceSystem.resources of each kind: the entry at the path
    sys_garbage,    \* ResourceSystem.garbage of each kind
    readers,        \* the threads holding a read guard of the RwLock of each kind
    writer,         \* the thread holding the write guard of the RwLock of each kind
    mutex,          \* the thread holding the garbage Mutex of each kind
    stack,          \* the calls each thread is in, the innermost last
    keeps,          \* the handles each thread keeps
    ret,            \* history: what the last call of each thread returned
    ops,            \* the number of calls each thread has made
    next_obj        \* the number of allocations made so far

tvars == <<sys_resources, sys_garbage, readers, writer, mutex, stack, keeps, ret,
           ops, next_obj>>

\* Swapchain::new
VARIABLES
    surface,        \* what query_support returned, and the extent asked for
    picked          \* the present mode and the extent picked so far

pvars == <<surface, picked>>

\* DescriptorSet::write
VARIABLES
    write_args,     \* the arguments of the call
    write_result    \* what the call returned, and the descriptor writes it made

dvars == <<write_args, write_result>>

\* a ComponentArray
VARIABLES
    entity_map,     \* ComponentArray.entity_map: entity -> index into components
    components,     \* ComponentArray.components
    latest,         \* history: the component last inserted for each entity and
                    \* not removed since
    array_ret,      \* history: the last call, what it returned and what the
                    \* entity's component was before it
    array_calls     \* the number of calls made

evars == <<entity_map, components, latest, array_ret, array_calls>>

\* a Timer
VARIABLES
    clock,          \* Instant::now(), in ticks
    timer,          \* the Timer: start, target and stopped
    timer_last      \* history: the last call made on the timer

zvars == <<clock, timer, timer_last>>

\* the Renderer's vectors over swapchains of different image counts
VARIABLES
    swapchain_images,  \* Data.swapchain.image_count()
    in_flight,         \* Renderer.images_in_flight, image 0 first
    frame_slot,        \* Renderer.current_frame
    indexed            \* history: the last call, and whether an index was out
                       \* of bounds

ivars == <<swapchain_images, in_flight, frame_slot, indexed>>

\* the RwLocks and Mutexes of a ResourceManager shared by several threads
VARIABLES
    policy,         \* whether the RwLocks of this build keep a reader waiting
                    \* behind a writer that waits
    cached,         \* the live map of each kind holds the entry of the path
    rw_readers,     \* the threads holding a read guard of each RwLock
    rw_writer,      \* the thread holding the write guard of each RwLock
    garbage_mutex,  \* the thread holding the garbage Mutex of each kind
    script,         \* what is left of the call each thread is in
    in_call,        \* history: the call each thread is in
    lock_calls      \* the number of calls made

lvars == <<policy, cached, rw_readers, rw_writer, garbage_mutex, script, in_call,
           lock_calls>>

\* the device selection and the image count of Swapchain::new
VARIABLES
    support,        \* what query_support returns for the device and the surface
    score,          \* what rate_device returned for the device
    create_info     \* the SwapchainCreateInfoKHR of Swapchain::new

cvars == <<support, score, create_info>>

\* an EntityManager
VARIABLES
    alive_count,    \* EntityManager.alive_count
    free_ids,       \* EntityManager.free_ids
    alive,          \* history: the ids created and not destroyed since
    entity_last,    \* history: the last call and what it returned
    entity_calls    \* the number of calls made

nvars == <<alive_count, free_ids, alive, entity_last, entity_calls>>

xvars == <<lvars, cvars, nvars>>

\* the state outside the ResourceManager and the Renderer
others == <<tvars, pvars, dvars, evars, zvars, ivars, xvars>>

mvars == <<swapchain, resources, garbage, heap, panicked, lastLoaded, others>>
rvars == <<pc, current_frame, frame_count, in_flight_fences, images_in_flight,
           image_index, data, acquired, pending, device_lost, calls, stale,
           image_available>>
vars == <<swapchain, resources, garbage, heap, handles, steps, panicked,
          lastLoaded, last, pc, current_frame, frame_count, in_flight_fences,
          images_in_flight, image_index, data, acquired, pending, device_lost,
          calls, stale, image_available, others>>

EmptyMap == [p \in Paths |-> NoObj]
Id(k, p, n) == [kind |-> k, path |-> p, gen |-> n]

\* the manager before any load, with no swapchain set
EmptyWorld ==
    [swapchain |-> NoSwapchain, resources |-> [k \in Kinds |-> EmptyMap],
     garbage |-> [k \in Kinds |-> <<>>],
     heap |-> [k \in Kinds |-> [p \in Paths |-> <<>>]], held |-> {},
     panicked |-> FALSE, lastLoaded |-> [k \in Kinds |-> EmptyMap], log |-> <<>>]

\* the state the manager's operations work on; `held` are the handles held
\* outside the manager
World(held) ==
    [swapchain |-> swapchain, resources |-> resources, garbage |-> garbage,
     heap |-> heap, held |-> held, panicked |-> panicked,
     lastLoaded |-> lastLoaded, log |-> <<>>]

Count(m) == Cardinality({p \in Paths : m[p] # NoObj})

Alive(w, k, p, n) == n \in DOMAIN w.heap[k][p]

AliveOf(w, k) == UNION {{<<p, n>> : n \in DOMAIN w.heap[k][p]} : p \in Paths}

\* the strong count of an allocation were a Material to hold its pipeline
\* and its textures by plain reference
StrongWithoutMaterials(w, k, p, n) ==
    (IF w.resources[k][p] = n THEN 1 ELSE 0)
    + Cardinality({i \in DOMAIN w.garbage[k] :
                     w.garbage[k][i].path = p /\ w.garbage[k][i].resource = n})
    + Cardinality({h \in w.held : h.id = Id(k, p, n)})

\* Arc::strong_count
Strong(w, k, p, n) ==
    (IF w.resources[k][p] = n THEN 1 ELSE 0)
    + Cardinality({i \in DOMAIN w.garbage[k] :
                     w.garbage[k][i].path = p /\ w.garbage[k][i].resource = n})
    + (IF k = "pipeline"
       THEN Cardinality({m \in AliveOf(w, "material") :
                            /\ MaterialSpec(m[1]).pipeline = p
                            /\ w.heap["material"][m[1]][m[2]].pipeline = n})
       ELSE 0)
    + (IF k = "texture"
       THEN Cardinality(UNION {{<<m, i>> : i \in {j \in DOMAIN MaterialSpec(m[1]).textures :
                                  /\ MaterialSpec(m[1]).textures[j] = p
                                  /\ w.heap["material"][m[1]][m[2]].textures[j] = n}} :
                               m \in AliveOf(w, "material")})
       ELSE 0)
    + Cardinality({h \in w.held : h.id = Id(k, p, n)})

\* the allocations nobody holds
Dead(w) ==
    UNION {{<<k, p, n>> : n \in {m \in DOMAIN w.heap[k][p] : Strong(w, k, p, m) = 0}} :
           k \in Kinds, p \in Paths}

\* drops every allocation nobody holds any more; dropping a Material releases
\* its pipeline and textures
RECURSIVE Sweep(_)
Sweep(w) ==
    LET mark(dead, k, p, o) ==
            IF k = "pipeline" /\ <<"renderpass", PipelineSpec(p).renderpass, o.rp>> \in dead
            THEN [o EXCEPT !.rp = Stale] ELSE o
        drop(dead) ==
            IF dead = {} THEN w
            ELSE Sweep([w EXCEPT !.heap = [k \in Kinds |-> [p \in Paths |->
                        [n \in {m \in DOMAIN w.heap[k][p] : <<k, p, m>> \notin dead} |->
                            mark(dead, k, p, w.heap[k][p][n])]]]])
    IN  drop(Dead(w))

\* Arc::new
Alloc(w, k, p, obj) ==
    LET used == DOMAIN w.heap[k][p]
        n == CHOOSE m \in 1..Cardinality(used) + 1 :
                m \notin used /\ \A l \in 1..m - 1 : l \in used
    IN  [w |-> [w EXCEPT !.heap[k][p] = [m \in used \cup {n} |->
                                            IF m = n THEN obj ELSE @[m]]],
         res |-> n]

Obj(pl, tx, rp, sc) == [pipeline |-> pl, textures |-> tx, rp |-> rp, sc |-> sc]

Err(w) == [w |-> w, res |-> NoObj]
Panic(w) == [w |-> [w EXCEPT !.panicked = TRUE], res |-> NoObj]

RECURSIVE LoadTextures(_, _, _, _)
RECURSIVE SysLoad(_, _, _, _)
RECURSIVE PipelineNew(_, _, _)
RECURSIVE MaterialNew(_, _, _)
RECURSIVE TLoad(_, _, _, _)

\* RenderPass::new with the formats of swapchain `sc`
RenderPassNew(w, p, sc, f) ==
    IF Hit(f, "renderpass", p, "post") THEN Err(w)
    ELSE Alloc(w, "renderpass", p, Obj(NoObj, <<>>, NoObj, sc))

\* Pipeline::new: the pipeline is created against the render pass that
\* load_renderpass returns
PipelineNew(w, p, f) ==
    LET create(r) ==
            IF r.res = NoObj THEN r
            ELSE IF Hit(f, "pipeline", p, "post") THEN Err(r.w)
            ELSE Alloc(r.w, "pipeline", p, Obj(NoObj, <<>>, r.res, r.w.swapchain))
    IN  IF Hit(f, "pipeline", p, "pre") THEN Err(w)
        ELSE IF w.swapchain = NoSwapchain THEN Panic(w)
        ELSE create(SysLoad(w, "renderpass", PipelineSpec(p).renderpass, f))

\* the textures.iter().map(load_texture).collect::<Result<_>>() of Material::new
LoadTextures(w, paths, f, acc) ==
    LET next(r) ==
            IF r.res = NoObj THEN [w |-> r.w, res |-> NoObj, tx |-> acc]
            ELSE LoadTextures(r.w, Tail(paths), f, Append(acc, r.res))
    IN  IF paths = <<>> THEN [w |-> w, res |-> 1, tx |-> acc]
        ELSE next(SysLoad(w, "texture", Head(paths), f))

\* Material::new
MaterialNew(w, p, f) ==
    LET create(pl, t) ==
            IF t.res = NoObj THEN Err(t.w)
            ELSE IF t.w.swapchain = NoSwapchain THEN Panic(t.w)
            ELSE IF Hit(f, "material", p, "post") THEN Err(t.w)
            ELSE Alloc(t.w, "material", p, Obj(pl, t.tx, NoObj, t.w.swapchain))
        textures(r) ==
            IF r.res = NoObj THEN r
            ELSE create(r.res, LoadTextures(r.w, MaterialSpec(p).textures, f, <<>>))
    IN  textures(SysLoad(w, "pipeline", MaterialSpec(p).pipeline, f))

\* <T as Resource>::load
TLoad(w, k, p, f) ==
    IF Hit(f, k, p, "read") THEN Err(w)
    ELSE CASE k = "texture" -> Alloc(w, k, p, Obj(NoObj, <<>>, NoObj, NoSwapchain))
           [] k = "model" -> Alloc(w, k, p, Obj(NoObj, <<>>, NoObj, NoSwapchain))
           [] k = "renderpass" ->
                IF w.swapchain = NoSwapchain THEN Panic(w)
                ELSE RenderPassNew(w, p, w.swapchain, f)
           [] k = "pipeline" -> PipelineNew(w, p, f)
           [] k = "material" -> MaterialNew(w, p, f)

\* history: one ResourceSystem::load call
LogEntry(w0, w1, k, p, res, ran) ==
    [kind |-> k, path |-> p, before |-> w0.lastLoaded[k][p], res |-> res,
     ran |-> ran, grew |-> Count(w1.resources[k]) > Count(w0.resources[k])]

\* ResourceSystem::load finding the path in the live map
Cached(w, k, p) ==
    [w |-> [w EXCEPT !.log = Append(@, LogEntry(w, w, k, p, w.resources[k][p], FALSE)),
                     !.lastLoaded[k][p] = w.resources[k][p]],
     res |-> w.resources[k][p]]

\* ResourceSystem::load after T::load returned `r`: the error goes to the
\* caller, the resource into the live map
Insert(w, k, p, r) ==
    IF r.res = NoObj
    THEN [w |-> [r.w EXCEPT !.log = Append(@, LogEntry(w, r.w, k, p, NoObj, TRUE))],
          res |-> NoObj]
    ELSE [w |-> [r.w EXCEPT
                    !.resources[k][p] = r.res,
                    !.log = Append(@, LogEntry(w,
                                [r.w EXCEPT !.resources[k][p] = r.res], k, p, r.res, TRUE)),
                    !.lastLoaded[k][p] = r.res],
          res |-> r.res]

\* ResourceSystem::load without the lookup: every call loads
SysLoadAlways(w, k, p, f) == Insert(w, k, p, TLoad(w, k, p, f))

\* ResourceSystem::load emptying the live map when T::load fails
SysLoadClearsOnError(w, k, p, f) ==
    LET clear(r) ==
            IF r.res = NoObj THEN [r EXCEPT !.w.resources[k] = EmptyMap] ELSE r
    IN  IF w.resources[k][p] # NoObj THEN Cached(w, k, p)
        ELSE clear(Insert(w, k, p, TLoad(w, k, p, f)))

\* ResourceSystem::load taking a resource that waits in the garbage list
\* back into the live map
SysLoadResurrects(w, k, p, f) ==
    LET waiting == {i \in DOMAIN w.garbage[k] : w.garbage[k][i].path = p}
    IN  IF w.resources[k][p] # NoObj THEN Cached(w, k, p)
        ELSE IF waiting # {}
        THEN Insert(w, k, p, [w |-> w, res |-> w.garbage[k][CHOOSE i \in waiting : TRUE].resource])
        ELSE Insert(w, k, p, TLoad(w, k, p, f))

\* ResourceSystem::load
SysLoad(w, k, p, f) ==
    IF w.resources[k][p] # NoObj THEN Cached(w, k, p)
    ELSE Insert(w, k, p, TLoad(w, k, p, f))

\* ResourceSystem::get
SysGet(w, k, p) == w.resources[k][p]

\* ResourceSystem::info: the name and the strong count of every live entry
SysInfo(w, k) ==
    {[name |-> p, ty |-> k, strong_refs |-> Strong(w, k, p, w.resources[k][p])] :
        p \in {q \in Paths : w.resources[k][q] # NoObj}}

\* cycles_remaining -= 1 on a u32, which wraps below 0
Decremented(n) == IF n = 0 THEN U32_MAX ELSE n - 1

\* collect_garbage taking one cycle from every entry before it removes
\* those with none remaining
AgedBeforePurge(g) ==
    LET aged == [i \in DOMAIN g |->
                    [g[i] EXCEPT !.cycles_remaining = Decremented(@), !.age = @ + 1]]
    IN  SelectSeq(aged, LAMBDA v : v.cycles_remaining > 0)

\* the garbage.retain(cycles_remaining > 0) and the decrement of
\* collect_garbage; `age` and `grace` of a garbage entry are history: the
\* passes it has been through since its eviction, and the garbage_cycles it
\* was evicted with
Aged(g) ==
    LET kept == SelectSeq(g, LAMBDA v : v.cycles_remaining > 0)
    IN  [i \in DOMAIN kept |->
            [kept[i] EXCEPT !.cycles_remaining = Decremented(@), !.age = @ + 1]]

\* the resources.retain of collect_garbage moving the entries at the paths
\* `evict` to the garbage list
Evict(w, k, c, evict) ==
    [w EXCEPT
        !.garbage[k] = @ \o [i \in DOMAIN evict |->
                                [path |-> evict[i], resource |-> w.resources[k][evict[i]],
                                 cycles_remaining |-> c, age |-> 0, grace |-> c]],
        !.resources[k] = [p \in Paths |->
                            IF \E i \in DOMAIN evict : evict[i] = p THEN NoObj ELSE @[p]],
        !.lastLoaded[k] = [p \in Paths |->
                            IF \E i \in DOMAIN evict : evict[i] = p THEN NoObj ELSE @[p]]]

\* ResourceSystem::collect_garbage evicting the entries with one holder
\* besides the cache as well
SysCollectOffByOne(w, k, c) ==
    LET pass(w1) ==
            Evict(w1, k, c, SelectSeq(PathSeq, LAMBDA p :
                /\ w1.resources[k][p] # NoObj
                /\ Strong(w1, k, p, w1.resources[k][p]) <= 2))
    IN  pass(Sweep([w EXCEPT !.garbage[k] = Aged(@)]))

\* ResourceSystem::collect_garbage moving the unused entries to the garbage
\* list before the purge and the decrement
SysCollectEvictsFirst(w, k, c) ==
    LET aged(w1) == Sweep([w1 EXCEPT !.garbage[k] = Aged(@)])
    IN  aged(Evict(w, k, c, SelectSeq(PathSeq, LAMBDA p :
                /\ w.resources[k][p] # NoObj
                /\ Strong(w, k, p, w.resources[k][p]) = 1)))

\* ResourceSystem::collect_garbage
SysCollect(w, k, c) ==
    LET pass(w1) ==
            Evict(w1, k, c, SelectSeq(PathSeq, LAMBDA p :
                /\ w1.resources[k][p] # NoObj
                /\ Strong(w1, k, p, w1.resources[k][p]) = 1))
    IN  pass(Sweep([w EXCEPT !.garbage[k] = Aged(@)]))

\* ResourceManager::collect_garbage
RECURSIVE MgrCollect(_, _, _)
MgrCollect(w, ks, c) ==
    IF ks = <<>> THEN w
    ELSE MgrCollect(Sweep(SysCollect(w, Head(ks), c)), Tail(ks), c)

\* RenderPass::recreate, Pipeline::recreate, Material::recreate
TRecreate(w, k, p, f) ==
    CASE k = "renderpass" -> RenderPassNew(w, p, w.swapchain, f)
      [] k = "pipeline" -> PipelineNew(w, p, f)
      [] k = "material" -> MaterialNew(w, p, f)

\* the iter().map(recreate).collect::<Result<HashMap>>() of
\* ResourceManager::recreate, visiting the entries in the order `ord`
RECURSIVE Rebuild(_, _, _, _, _)
Rebuild(w, k, ord, f, acc) ==
    LET next(r) ==
            IF r.res = NoObj THEN [w |-> r.w, res |-> NoObj, map |-> acc]
            ELSE Rebuild(r.w, k, Tail(ord), f, [acc EXCEPT ![Head(ord)] = r.res])
    IN  IF ord = <<>> THEN [w |-> w, res |-> 1, map |-> acc]
        ELSE IF w.resources[k][Head(ord)] = NoObj THEN Rebuild(w, k, Tail(ord), f, acc)
        ELSE next(TRecreate(w, k, Head(ord), f))

\* ResourceManager::recreate putting each rebuilt entry into the live map as
\* soon as it is built
RECURSIVE MgrRecreateEntryWise(_, _, _, _)
MgrRecreateEntryWise(w, ks, ords, f) ==
    LET merge(r) ==
            [r.w EXCEPT !.resources[Head(ks)] =
                [p \in Paths |-> IF r.map[p] # NoObj THEN r.map[p] ELSE @[p]]]
        replace(r) ==
            IF r.res = NoObj THEN Err(merge(r))
            ELSE MgrRecreateEntryWise([r.w EXCEPT !.resources[Head(ks)] = r.map],
                                      Tail(ks), ords, f)
    IN  IF ks = <<>> THEN [w |-> w, res |-> 1]
        ELSE replace(Rebuild(w, Head(ks), ords, f, EmptyMap))

\* the three scopes of ResourceManager::recreate
RECURSIVE MgrRecreate(_, _, _, _)
MgrRecreate(w, ks, ords, f) ==
    LET replace(r) ==
            IF r.res = NoObj THEN Err(r.w)
            ELSE MgrRecreate([r.w EXCEPT !.resources[Head(ks)] = r.map],
                             Tail(ks), ords, f)
    IN  IF ks = <<>> THEN [w |-> w, res |-> 1]
        ELSE replace(Rebuild(w, Head(ks), ords, f, EmptyMap))

\* the pipelines rebuilt before the render passes
RecreatePipelinesFirst == <<"pipeline", "renderpass", "material">>

\* the order ResourceManager::recreate rebuilds the kinds in
RecreateSeq == <<"renderpass", "pipeline", "material">>

\* history: a recreate starts
Forget(w) ==
    [w EXCEPT !.lastLoaded = [k \in Kinds |->
        IF k \in {"renderpass", "pipeline", "material"} THEN EmptyMap ELSE @[k]]]

\* the faults a recreate can run into
RecreateFaults ==
    {f \in Faults : f = NoFault \/ (f.kind \in CallerKinds /\ f.path \in Files(f.kind)
                                     /\ ~(f.kind = "material" /\ f.stage = "read"))}

\* ResourceManager::recreate
ManagerRecreate(w, ords, f) ==
    IF w.swapchain = NoSwapchain THEN Panic(w)
    ELSE MgrRecreate(Forget(w), RecreateSeq, ords, f)

\* ------------------------------------------------------ Renderer::create_data
\* the steps of create_data that fail without a load: Swapchain::new, the
\* descriptor and command pool set-up, the framebuffers and command buffers
DataFaults == {"none", "swapchain", "descriptors", "framebuffers"}
\* the clones of Arcs that Data holds
DataHeld(d) ==
    {[who |-> "data", id |-> Id(k, DefaultPath, d[k])] :
        k \in {j \in {"material", "model", "renderpass"} : d[j] # NoObj}}

\* what the command buffers recorded from Data reference
Refs(w, d) ==
    {Id("material", DefaultPath, d.material), Id("model", DefaultPath, d.model),
     Id("renderpass", DefaultPath, d.renderpass),
     Id("pipeline", MaterialSpec(DefaultPath).pipeline,
        w.heap["material"][DefaultPath][d.material].pipeline)}
    \cup {Id("texture", MaterialSpec(DefaultPath).textures[i],
             w.heap["material"][DefaultPath][d.material].textures[i]) :
            i \in DOMAIN MaterialSpec(DefaultPath).textures}

\* Renderer::create_data; res is NoObj when it returns an error
CreateData(w, g, f) ==
    LET fail(w1) == [w |-> w1, res |-> NoObj, data |-> NoData]
        model(m, rp, r) ==
            IF r.res = NoObj THEN fail(r.w)
            ELSE [w |-> r.w, res |-> 1,
                  data |-> [swapchain |-> r.w.swapchain, material |-> m,
                            model |-> r.res, renderpass |-> rp]]
        renderpass(m, r) ==
            IF r.res = NoObj \/ g = "framebuffers" THEN fail(r.w)
            ELSE model(m, r.res, SysLoad(r.w, "model", DefaultPath, f))
        material(r) ==
            IF r.res = NoObj THEN fail(r.w)
            ELSE renderpass(r.res, SysLoad(r.w, "renderpass", DefaultPath, f))
        set(w1) ==
            IF g = "descriptors" THEN fail(w1)
            ELSE material(SysLoad(w1, "material", DefaultPath, f))
    IN  IF g = "swapchain" THEN fail(w)
        ELSE set([w EXCEPT !.swapchain = @ + 1])

\* the Renderer that Renderer::new returns over a new ResourceManager
NewRenderer == CreateData(EmptyWorld, "none", NoFault)

\* ------------------------------------------- ResourceSystem under threads
Threads == {1, 2}
NoThread == 0
\* the ResourceSystems the threads call: T::load of a material loads its
\* pipeline, and the Material keeps the handle
SysKinds == {"pipeline", "material"}
\* no entry at the path, or the error of a load
Null == [kind |-> "none", id |-> 0, pipeline |-> 0]
\* not in a call
NoRet == [op |-> "none", kind |-> "none", res |-> Null, before |-> Null, ran |-> FALSE]

\* ResourceSystem::new of each kind, no thread in a call
NoCallers ==
    /\ sys_resources = [k \in SysKinds |-> Null]
    /\ sys_garbage = [k \in SysKinds |-> <<>>]
    /\ readers = [k \in SysKinds |-> {}]
    /\ writer = [k \in SysKinds |-> NoThread]
    /\ mutex = [k \in SysKinds |-> NoThread]
    /\ stack = [t \in Threads |-> <<>>]
    /\ keeps = [t \in Threads |-> {}]
    /\ ret = [t \in Threads |-> NoRet]
    /\ ops = [t \in Threads |-> 0]
    /\ next_obj = 0

\* ------------------------------------------------------------ Swapchain::new
\* vk::PresentModeKHR
PresentModes == {"IMMEDIATE", "MAILBOX", "FIFO", "FIFO_RELAXED"}
NoExtent == [width |-> 0, height |-> 0]
NoSurface ==
    [present_modes |-> <<>>,
     capabilities |-> [current_extent |-> NoExtent, min_image_extent |-> NoExtent,
                       max_image_extent |-> NoExtent],
     extent |-> NoExtent]
NothingPicked == [present_mode |-> "none", extent |-> NoExtent]

\* no Swapchain::new under way
NoSwapchainNew ==
    /\ surface = NoSurface
    /\ picked = NothingPicked

\* graphics::SWAPCHAIN_IMAGE_COUNT
SWAPCHAIN_IMAGE_COUNT == 3
\* rate_device has not been called
NotRated == -1
\* Swapchain::new has not been called
NoCreateInfo == [min_image_count |-> 0]

\* ------------------------------------------------------ DescriptorSet::write
\* DescriptorType
DescriptorTypes == {"UniformBuffer", "CombinedImageSampler"}
NoArgs == [bindings |-> <<>>, sets |-> 0, buffers |-> 0, textures |-> 0, samplers |-> 0]
NotCalled == [err |-> "not called", ty |-> "none", expected |-> 0, supplied |-> 0,
              writes |-> <<>>]

\* no DescriptorSet::write under way
NoWrite ==
    /\ write_args = NoArgs
    /\ write_result = NotCalled

\* ------------------------------------------------------------ ComponentArray
Entities == 1..MaxEntities
\* the entity has no entry in entity_map
NoIndex == -1
\* Option::None
NoComponent == [of |-> 0, n |-> 0]

\* ComponentArray::new
NewComponentArray ==
    /\ entity_map = [e \in Entities |-> NoIndex]
    /\ components = <<>>
    /\ latest = [e \in Entities |-> NoComponent]
    /\ array_ret = [op |-> "new", entity |-> 0, res |-> NoComponent,
                    expected |-> NoComponent, panicked |-> FALSE]
    /\ array_calls = 0

\* ---------------------------------------------------------------------- Timer
\* Option::None of target and of stopped
NoDuration == -1

\* Timer::start and Timer::with_target at the instant `now`
NewTimer(now, target) == [start |-> now, target |-> target, stopped |-> NoDuration]

\* no Timer watched
NoTimer ==
    /\ clock = 0
    /\ timer = NewTimer(0, NoDuration)
    /\ timer_last = [op |-> "none"]

\* ------------------------------------------------- Renderer.images_in_flight
\* the Renderer over a swapchain of image_count images, no frame drawn
NoFrames ==
    /\ swapchain_images = image_count
    /\ in_flight = [i \in 1..image_count |-> NullFence]
    /\ frame_slot = 0
    /\ indexed = [op |-> "new", panicked |-> FALSE]

\* --------------------------------------------- the manager's locks, unused
LockKinds == {"texture", "renderpass", "pipeline", "material"}
Locks == LockKinds \cup {"swapchain"}

\* no thread in a call of the manager
NoLockCalls ==
    /\ policy = "readers_first"
    /\ cached = [k \in LockKinds |-> FALSE]
    /\ rw_readers = [l \in Locks |-> {}]
    /\ rw_writer = [l \in Locks |-> NoThread]
    /\ garbage_mutex = [k \in LockKinds |-> NoThread]
    /\ script = [t \in Threads |-> <<>>]
    /\ in_call = [t \in Threads |-> "none"]
    /\ lock_calls = 0

\* --------------------------------------------------------- device selection
\* no device rated
NoRating ==
    /\ support = [min_image_count |-> 1, max_image_count |-> 0, formats |-> 0,
                  present_modes |-> 0]
    /\ score = NotRated
    /\ create_info = NoCreateInfo

\* ------------------------------------------------------------ EntityManager
\* EntityManager::new
NewEntityManager ==
    /\ alive_count = 0
    /\ free_ids = <<>>
    /\ alive = {}
    /\ entity_last = [op |-> "new", id |-> NoIndex, was_alive |-> FALSE]
    /\ entity_calls = 0

OthersInit ==
    /\ NoCallers /\ NoSwapchainNew /\ NoWrite /\ NewComponentArray
    /\ NoTimer /\ NoFrames /\ NoLockCalls /\ NoRating /\ NewEntityManager

\* ------------------------------------------------- the manager and its callers
CallerHeld(hs) == {[who |-> "caller", id |-> h] : h \in hs}

\* every clone held outside the manager
Held == CallerHeld(handles) \cup DataHeld(data)

\* before Renderer::new
NoRenderer ==
    /\ pc = "idle"
    /\ current_frame = 0
    /\ frame_count = 0
    /\ in_flight_fences = [s \in Slots |-> create_fence]
    /\ images_in_flight = [i \in Images |-> NullFence]
    /\ image_index = 0
    /\ data = NoData
    /\ acquired = {}
    /\ pending = <<>>
    /\ device_lost = FALSE
    /\ calls = NoCalls
    /\ stale = FALSE
    /\ image_available = [s \in Slots |-> create_semaphore]

\* ResourceManager::new, no Renderer
NewManager ==
    /\ swapchain = NoSwapchain
    /\ resources = [k \in Kinds |-> EmptyMap]
    /\ garbage = [k \in Kinds |-> <<>>]
    /\ heap = [k \in Kinds |-> [p \in Paths |-> <<>>]]
    /\ steps = 0
    /\ handles = {}
    /\ panicked = FALSE
    /\ lastLoaded = [k \in Kinds |-> EmptyMap]
    /\ last = [op |-> "new"]
    /\ NoRenderer

\* ResourceManager::new
Init == NewManager /\ OthersInit

\* the thread makes one more call, of at most `max`
Step(max) ==
    /\ ~panicked
    /\ pc = "idle"
    /\ steps < max
    /\ steps' = steps + 1

Commit(w) ==
    /\ swapchain' = w.swapchain
    /\ resources' = w.resources
    /\ garbage' = w.garbage
    /\ heap' = w.heap
    /\ panicked' = w.panicked
    /\ lastLoaded' = w.lastLoaded
    /\ UNCHANGED others

\* ResourceManager::load_texture / load_model / load_renderpass /
\* load_pipeline / load_material, the caller keeping the handle or not
Load(k, p, f, keep) ==
    /\ Step(MaxSteps)
    /\ LET done(r) ==
            LET h == IF keep /\ r.res # NoObj /\ ~r.w.panicked
                     THEN handles \cup {Id(k, p, r.res)} ELSE handles
            IN  /\ keep => (r.res # NoObj /\ Cardinality(h) <= MaxHandles /\ h # handles)
                /\ Commit(Sweep([r.w EXCEPT !.held = CallerHeld(h) \cup DataHeld(data)]))
                /\ handles' = h
                /\ last' = [op |-> "load", kind |-> k, path |-> p, res |-> r.res,
                            log |-> r.w.log]
       IN  done(SysLoad(World(Held), k, p, f))
    /\ UNCHANGED rvars

\* ResourceManager::get_texture / get_model / get_pipeline / get_renderpass /
\* get_material, the caller keeping the handle
Get(k, p) ==
    /\ Step(MaxSteps)
    /\ SysGet(World(Held), k, p) # NoObj
    /\ Id(k, p, resources[k][p]) \notin handles
    /\ Cardinality(handles) < MaxHandles
    /\ handles' = handles \cup {Id(k, p, resources[k][p])}
    /\ last' = [op |-> "get", kind |-> k, path |-> p, res |-> resources[k][p]]
    /\ UNCHANGED mvars
    /\ UNCHANGED rvars

\* a caller drops a handle
Release(h) ==
    /\ Step(MaxSteps)
    /\ h \in handles
    /\ handles' = handles \ {h}
    /\ Commit(Sweep(World(CallerHeld(handles \ {h}) \cup DataHeld(data))))
    /\ last' = [op |-> "release"]
    /\ UNCHANGED rvars

\* ResourceManager::collect_garbage, called between two draw_frame calls
CollectGarbage(c, max) ==
    /\ Step(max)
    /\ Commit(MgrCollect(World(Held), KindSeq, c))
    /\ last' = [op |-> "collect_garbage", cycles |-> c]
    /\ UNCHANGED handles
    /\ UNCHANGED rvars

\* ResourceManager::recreate
Recreate(ords, f) ==
    /\ Step(MaxSteps)
    /\ LET done(r) ==
            /\ Commit(Sweep(r.w))
            /\ last' = [op |-> "recreate", res |-> r.res, log |-> r.w.log]
       IN  done(ManagerRecreate(World(Held), ords, f))
    /\ UNCHANGED handles
    /\ UNCHANGED rvars

\* ResourceManager::set_swapchain
SetSwapchain ==
    /\ Step(MaxSteps)
    /\ swapchain < MaxSets
    /\ swapchain' = swapchain + 1
    /\ last' = [op |-> "set_swapchain"]
    /\ UNCHANGED <<resources, garbage, heap, handles, panicked, lastLoaded, others>>
    /\ UNCHANGED rvars

Next ==
    \/ \E k \in CallerKinds, keep \in BOOLEAN : \E p \in Files(k) :
          \E f \in FaultsOf(k, p) : Load(k, p, f, keep)
    \/ \E k \in CallerKinds : \E p \in Files(k) : Get(k, p)
    \/ \E h \in handles : Release(h)
    \/ \E c \in 0..MaxCycles : CollectGarbage(c, MaxSteps)
    \/ \E ord \in PathOrders, f \in RecreateFaults : Recreate(ord, f)
    \/ SetSwapchain

Spec == Init /\ [][Next]_vars

\* ------------------------------------------------------ Renderer::draw_frame
\* the garbage_cycles Application::run calls collect_garbage with
GcCycles == MAX_FRAMES_IN_FLIGHT..image_count
\* the faults ResourceManager::recreate runs into under the Renderer
ManagerFaults ==
    {NoFault} \cup [kind : {"renderpass", "pipeline", "material"},
                    path : {DefaultPath}, stage : {"post"}]
AcquireResults == {"ok", "suboptimal", "out_of_date", "error"}
RecordFaults == {"none", "reset", "end"}

\* Renderer::new over a new ResourceManager
InitFrame ==
    /\ swapchain = NewRenderer.w.swapchain
    /\ resources = NewRenderer.w.resources
    /\ garbage = NewRenderer.w.garbage
    /\ heap = NewRenderer.w.heap
    /\ steps = 0
    /\ handles = {}
    /\ panicked = FALSE
    /\ lastLoaded = [k \in Kinds |-> EmptyMap]
    /\ last = [op |-> "new"]
    /\ pc = "idle"
    /\ current_frame = 0
    /\ frame_count = 0
    /\ in_flight_fences = [s \in Slots |-> create_fence]
    /\ images_in_flight = [i \in Images |-> NullFence]
    /\ image_index = 0
    /\ data = NewRenderer.data
    /\ acquired = {}
    /\ pending = <<>>
    /\ device_lost = FALSE
    /\ calls = NoCalls
    /\ stale = FALSE
    /\ image_available = [s \in Slots |-> create_semaphore]
    /\ OthersInit

\* vulkan::wait_for_fences on the fence of slot `s` returns: the fence is
\* signaled, or the wait fails, which is logged
WaitForFences(s) == in_flight_fences[s] \/ device_lost

\* draw_frame going on without the wait on its frame slot's fence
FrameFenceNotWaited == TRUE

\* the wait on in_flight_fences[current_frame] that draw_frame starts with
FrameFenceWait == WaitForFences(current_frame)

\* recreate going on to replace Data while the GPU is at work
DeviceNotWaited == TRUE

\* recreate going on when device_wait_idle returned an error
DeviceWaitErrorIgnored == pending = <<>> \/ device_lost

\* the device_wait_idle of Renderer::recreate returns Ok
DeviceWaitIdle == pending = <<>> /\ ~device_lost

\* draw_frame is called
DrawFrame ==
    /\ Step(MaxFrames)
    /\ pc' = "wait"
    /\ calls' = NoCalls
    /\ stale' = FALSE
    /\ last' = [op |-> "draw_frame"]
    /\ UNCHANGED <<mvars, handles, current_frame, frame_count, in_flight_fences,
                   images_in_flight, image_index, data, acquired, pending, device_lost>>
    /\ UNCHANGED image_available

\* draw_frame: the wait on the fence of the frame slot
WaitFrameFence ==
    /\ pc = "wait"
    /\ FrameFenceWait
    /\ pc' = "acquire"
    /\ UNCHANGED <<mvars, handles, steps, last, current_frame, frame_count,
                   in_flight_fences, images_in_flight, image_index, data, acquired,
                   pending, device_lost, calls, stale>>
    /\ UNCHANGED image_available

\* the images acquire_next_image can return: one the application does not
\* hold; the images never claimed are alike, the lowest stands for them
Available ==
    {i \in Images \ acquired :
        images_in_flight[i] = NullFence =>
            \A j \in Images \ acquired : j < i => images_in_flight[j] # NullFence}

\* draw_frame: acquire_next_image returns image `i` or an error; the results
\* in `recreates` make draw_frame call recreate
AcquireAs(i, res, recreates) ==
    /\ pc = "acquire"
    /\ device_lost => res = "error"
    /\ IF res \in {"ok", "suboptimal"}
       THEN i \in Available /\ image_index' = i /\ acquired' = acquired \cup {i}
       ELSE i = image_index /\ UNCHANGED <<image_index, acquired>>
    /\ stale' = (res \in {"suboptimal", "out_of_date"})
    /\ IF res \in recreates
       THEN pc' = "recreate" /\ calls' = [calls EXCEPT !.recreate = @ + 1]
       ELSE pc' = (IF res = "error" THEN "idle" ELSE "record") /\ UNCHANGED calls
    /\ UNCHANGED <<mvars, handles, steps, last, current_frame, frame_count,
                   in_flight_fences, images_in_flight, data, pending, device_lost>>
    /\ image_available' = IF res \in {"ok", "suboptimal"}
                          THEN [image_available EXCEPT ![current_frame] = TRUE]
                          ELSE image_available

\* draw_frame going on to draw into a suboptimal image
AcquireIgnoresSuboptimal(i, res) == AcquireAs(i, res, {"out_of_date"})

\* draw_frame: acquire_next_image and the suboptimal check
Acquire(i, res) == AcquireAs(i, res, {"suboptimal", "out_of_date"})

\* draw_frame: reset, record and end command buffer image_index
Record(fail) ==
    /\ pc = "record"
    /\ pc' = (IF fail = "none" THEN "image_wait" ELSE "idle")
    /\ calls' = [calls EXCEPT !.record = IF fail = "reset" THEN @ ELSE @ + 1]
    /\ UNCHANGED <<mvars, handles, steps, last, current_frame, frame_count,
                   in_flight_fences, images_in_flight, image_index, data, acquired,
                   pending, device_lost, stale>>
    /\ UNCHANGED image_available

\* draw_frame going on to claim the image without the wait on the fence
\* that owns it
ImageFenceNotWaited == TRUE

\* the wait on images_in_flight[image_index], made when it is not null
ImageFenceWait ==
    images_in_flight[image_index] # NullFence =>
        WaitForFences(images_in_flight[image_index])

\* draw_frame: the wait on images_in_flight[image_index], the claim of the
\* image and the reset of the frame slot's fence
WaitImageFence ==
    /\ pc = "image_wait"
    /\ ImageFenceWait
    /\ images_in_flight' = [images_in_flight EXCEPT ![image_index] = current_frame]
    /\ in_flight_fences' = [in_flight_fences EXCEPT ![current_frame] = FALSE]
    /\ calls' = [calls EXCEPT !.reset = @ + 1]
    /\ pc' = "submit"
    /\ UNCHANGED <<mvars, handles, steps, last, current_frame, frame_count,
                   image_index, data, acquired, pending, device_lost, stale>>
    /\ UNCHANGED image_available

\* draw_frame: CommandBuffer::submit with the frame slot's fence
Submit(ok) ==
    /\ pc = "submit"
    /\ device_lost => ~ok
    /\ pending' = IF ok
                  THEN Append(pending, [fence |-> current_frame, image |-> image_index,
                                        swapchain |-> data.swapchain,
                                        refs |-> Refs(World(Held), data)])
                  ELSE pending
    /\ calls' = [calls EXCEPT !.submit = @ + 1]
    /\ pc' = (IF ok THEN "present" ELSE "idle")
    /\ UNCHANGED <<mvars, handles, steps, last, current_frame, frame_count,
                   in_flight_fences, images_in_flight, image_index, data, acquired,
                   device_lost, stale>>
    /\ image_available' = IF ok THEN [image_available EXCEPT ![current_frame] = FALSE]
                          ELSE image_available

\* draw_frame going on to the next frame slot after a suboptimal present
PresentAdvancesOnSuboptimal(res) ==
    /\ pc = "present"
    /\ device_lost => res = "error"
    /\ acquired' = IF res \in {"ok", "suboptimal"} THEN acquired \ {image_index}
                   ELSE acquired
    /\ current_frame' = IF res \in {"ok", "suboptimal"}
                        THEN (current_frame + 1) % MAX_FRAMES_IN_FLIGHT
                        ELSE current_frame
    /\ frame_count' = IF res \in {"ok", "suboptimal"} THEN frame_count + 1 ELSE frame_count
    /\ calls' = [calls EXCEPT !.present = @ + 1,
                              !.recreate = IF res \in {"suboptimal", "out_of_date"}
                                           THEN @ + 1 ELSE @]
    /\ pc' = (IF res \in {"suboptimal", "out_of_date"} THEN "recreate" ELSE "idle")
    /\ UNCHANGED <<mvars, handles, steps, last, in_flight_fences, images_in_flight,
                   image_index, data, pending, device_lost, stale>>
    /\ UNCHANGED image_available

\* draw_frame: Swapchain::present and the advance to the next frame slot
Present(res) ==
    /\ pc = "present"
    /\ device_lost => res = "error"
    /\ acquired' = IF res \in {"ok", "suboptimal"} THEN acquired \ {image_index}
                   ELSE acquired
    /\ current_frame' = IF res = "ok" THEN (current_frame + 1) % MAX_FRAMES_IN_FLIGHT
                        ELSE current_frame
    /\ frame_count' = IF res = "ok" THEN frame_count + 1 ELSE frame_count
    /\ calls' = [calls EXCEPT !.present = @ + 1,
                              !.recreate = IF res \in {"suboptimal", "out_of_date"}
                                           THEN @ + 1 ELSE @]
    /\ pc' = (IF res \in {"suboptimal", "out_of_date"} THEN "recreate" ELSE "idle")
    /\ UNCHANGED <<mvars, handles, steps, last, in_flight_fences, images_in_flight,
                   image_index, data, pending, device_lost, stale>>
    /\ UNCHANGED image_available

\* recreate assigning self.data whatever create_data returned
DataLostOnError(c) == c.data

\* the self.data = iferr!(create_data) of Renderer::recreate: an error of
\* create_data is logged and recreate returns before the assignment
DataAfter(c) == IF c.res = NoObj THEN data ELSE c.data

\* Renderer::recreate after device_wait_idle: ResourceManager::recreate,
\* whose error is logged, then create_data, whose Data replaces self.data;
\* `f` is the step of a loader that fails, `g` the step of create_data
RendererRecreate(f, g) ==
    /\ pc = "recreate"
    /\ DeviceWaitIdle
    /\ LET done(manager, c) ==
            /\ Commit(Sweep([c.w EXCEPT
                    !.held = CallerHeld(handles) \cup DataHeld(DataAfter(c)),
                    !.lastLoaded = lastLoaded]))
            /\ data' = DataAfter(c)
            /\ acquired' = (IF c.res = NoObj THEN acquired ELSE {})
            /\ last' = [op |-> "renderer_recreate", manager |-> manager, res |-> c.res]
           create(m) ==
            done(m.res, IF m.w.panicked THEN [w |-> m.w, res |-> NoObj, data |-> NoData]
                        ELSE CreateData(m.w, g, f))
       IN  create(ManagerRecreate(World(Held), PathSeq, f))
    /\ pc' = "idle"
    /\ UNCHANGED <<handles, steps, current_frame, frame_count, in_flight_fences,
                   images_in_flight, image_index, pending, device_lost, calls, stale>>
    /\ UNCHANGED image_available

\* Renderer::recreate: device_wait_idle fails
RecreateWaitFails ==
    /\ pc = "recreate"
    /\ device_lost
    /\ pc' = "idle"
    /\ UNCHANGED <<mvars, handles, steps, last, current_frame, frame_count,
                   in_flight_fences, images_in_flight, image_index, data, acquired,
                   pending, device_lost, calls, stale>>
    /\ UNCHANGED image_available

\* the GPU completes the oldest batch and signals its fence
GpuComplete ==
    /\ pending # <<>>
    /\ ~device_lost
    /\ in_flight_fences' = [in_flight_fences EXCEPT ![Head(pending).fence] = TRUE]
    /\ pending' = Tail(pending)
    /\ UNCHANGED <<mvars, handles, steps, last, pc, current_frame, frame_count,
                   images_in_flight, image_index, data, acquired, device_lost, calls,
                   stale>>
    /\ UNCHANGED image_available

\* the device is lost
DeviceLost ==
    /\ ~device_lost
    /\ device_lost' = TRUE
    /\ UNCHANGED <<mvars, handles, steps, last, pc, current_frame, frame_count,
                   in_flight_fences, images_in_flight, image_index, data, acquired,
                   pending, calls, stale>>
    /\ UNCHANGED image_available
\* Application::run: collect_garbage and draw_frame in turn, the GPU at work
NextFrame ==
    \/ DrawFrame
    \/ WaitFrameFence
    \/ \E i \in Images, res \in AcquireResults : Acquire(i, res)
    \/ \E fail \in RecordFaults : Record(fail)
    \/ WaitImageFence
    \/ \E ok \in BOOLEAN : Submit(ok)
    \/ \E res \in AcquireResults : Present(res)
    \/ \E f \in ManagerFaults, g \in DataFaults :
          (f = NoFault \/ g = "none") /\ RendererRecreate(f, g)
    \/ RecreateWaitFails
    \/ GpuComplete
    \/ DeviceLost
    \/ \E c \in GcCycles : CollectGarbage(c, MaxFrames)

SpecFrame == InitFrame /\ [][NextFrame]_vars

\* ------------------------------------- ResourceSystem under threads: calls
\* the calls a thread makes on a ResourceSystem, and the garbage_cycles
SysCalls == {"load", "get", "info"}
SysCycles == {0, 1}

Idle(t) == stack[t] = <<>>
Top(t) == stack[t][Len(stack[t])]

\* a call of `op` on the ResourceSystem of kind `k` starts
Frame(op, k, at, c) ==
    [op |-> op, kind |-> k, pc |-> at, resource |-> Null, dep |-> Null,
     cycles |-> c, before |-> sys_resources[k], ran |-> FALSE]

\* every Arc a thread holds: the handles it keeps and the locals of its calls
Locals(t) ==
    {<<t, 0, h>> : h \in keeps[t]}
    \cup {<<t, i, stack[t][i].resource>> : i \in DOMAIN stack[t]}
    \cup {<<t, 0 - i, stack[t][i].dep>> : i \in DOMAIN stack[t]}

\* the Materials there are
Materials ==
    {o \in {sys_resources["material"]}
            \cup {sys_garbage["material"][i].resource : i \in DOMAIN sys_garbage["material"]}
            \cup UNION {{l[3] : l \in Locals(t)} : t \in Threads} :
        o.kind = "material"}

\* Arc::strong_count of `o`
StrongCount(o) ==
    (IF sys_resources[o.kind] = o THEN 1 ELSE 0)
    + Cardinality({i \in DOMAIN sys_garbage[o.kind] : sys_garbage[o.kind][i].resource = o})
    + Cardinality(UNION {{l \in Locals(t) : l[3] = o} : t \in Threads})
    + Cardinality({m \in Materials : o.kind = "pipeline" /\ m.pipeline = o.id})

\* RwLock::read, RwLock::write and Mutex::lock return
CanRead(k) == writer[k] = NoThread
CanWrite(k) == readers[k] = {} /\ writer[k] = NoThread
CanLock(k) == mutex[k] = NoThread

\* the read guard of load, get and info living on to the end of the call
GuardKept(rs, t) == rs

\* the read guard of load, get and info is a temporary of the lookup
\* expression and is dropped with it
GuardDropped(rs, t) == rs \ {t}

\* the lookup finding nothing
LookupMisses(k) == Null

\* resources.get(path) under the read guard
LookupEntry(k) == sys_resources[k]

\* the call of frame `f`, the innermost of thread `t`, returns `res`
Return(t, f, res, keep) ==
    IF Len(stack[t]) > 1
    THEN /\ ~keep
         /\ stack' = [stack EXCEPT ![t] =
                [SubSeq(@, 1, Len(@) - 1) EXCEPT ![Len(stack[t]) - 1].dep = res]]
         /\ UNCHANGED <<keeps, ret>>
    ELSE /\ keep => (res # Null /\ res \notin keeps[t]
                     /\ Cardinality(keeps[t]) < MaxHandles)
         /\ stack' = [stack EXCEPT ![t] = <<>>]
         /\ keeps' = [keeps EXCEPT ![t] = IF keep THEN @ \cup {res} ELSE @]
         /\ ret' = [ret EXCEPT ![t] = [op |-> f.op, kind |-> f.kind, res |-> res,
                                      before |-> f.before, ran |-> f.ran]]

\* ResourceSystem::load, get or info is called and takes the read lock
Call(t, op, k) ==
    /\ Idle(t)
    /\ ops[1] + ops[2] < MaxOps
    /\ CanRead(k)
    /\ readers' = [readers EXCEPT ![k] = @ \cup {t}]
    /\ stack' = [stack EXCEPT ![t] = <<Frame(op, k, "lookup", 0)>>]
    /\ ops' = [ops EXCEPT ![t] = @ + 1]
    /\ UNCHANGED <<sys_resources, sys_garbage, writer, mutex, keeps, ret, next_obj>>

\* load: the lookup under the read lock; get: the lookup and the clone;
\* info: the strong counts
Lookup(t, keep) ==
    /\ ~Idle(t)
    /\ Top(t).pc = "lookup"
    /\ readers' = [readers EXCEPT ![Top(t).kind] = GuardDropped(@, t)]
    /\ IF Top(t).op = "load" /\ LookupEntry(Top(t).kind) = Null
       THEN /\ ~keep
            /\ stack' = [stack EXCEPT ![t][Len(stack[t])].pc = "tload"]
            /\ UNCHANGED <<keeps, ret>>
       ELSE Return(t, Top(t), IF Top(t).op = "info" THEN Null
                              ELSE LookupEntry(Top(t).kind), keep)
    /\ UNCHANGED <<sys_resources, sys_garbage, writer, mutex, ops, next_obj>>

\* Pipeline::load, run by load with no lock held
LoadPipeline(t, ok) ==
    /\ ~Idle(t)
    /\ Top(t).pc = "tload" /\ Top(t).kind = "pipeline"
    /\ IF ok
       THEN /\ stack' = [stack EXCEPT ![t][Len(stack[t])] =
                    [@ EXCEPT !.pc = "write", !.ran = TRUE,
                              !.resource = [kind |-> "pipeline", id |-> next_obj + 1,
                                            pipeline |-> 0]]]
            /\ next_obj' = next_obj + 1
            /\ UNCHANGED <<keeps, ret>>
       ELSE /\ Return(t, [Top(t) EXCEPT !.ran = TRUE], Null, FALSE)
            /\ UNCHANGED next_obj
    /\ UNCHANGED <<sys_resources, sys_garbage, readers, writer, mutex, ops>>

\* Material::load, run by load with no lock held: load_pipeline is called
\* and takes the read lock of the pipelines
LoadMaterial(t) ==
    /\ ~Idle(t)
    /\ Top(t).pc = "tload" /\ Top(t).kind = "material"
    /\ CanRead("pipeline")
    /\ readers' = [readers EXCEPT !["pipeline"] = @ \cup {t}]
    /\ stack' = [stack EXCEPT ![t] =
            Append([@ EXCEPT ![Len(stack[t])].pc = "create", ![Len(stack[t])].ran = TRUE],
                   Frame("load", "pipeline", "lookup", 0))]
    /\ UNCHANGED <<sys_resources, sys_garbage, writer, mutex, keeps, ret, ops, next_obj>>

\* Material::new after load_pipeline returned: its error is returned, or the
\* Material is created, holding the pipeline, or a later step fails
CreateMaterial(t, ok) ==
    /\ ~Idle(t)
    /\ Top(t).pc = "create"
    /\ IF ok
       THEN /\ Top(t).dep # Null
            /\ stack' = [stack EXCEPT ![t][Len(stack[t])] =
                    [@ EXCEPT !.pc = "write", !.dep = Null,
                              !.resource = [kind |-> "material", id |-> next_obj + 1,
                                            pipeline |-> Top(t).dep.id]]]
            /\ next_obj' = next_obj + 1
            /\ UNCHANGED <<keeps, ret>>
       ELSE /\ Return(t, Top(t), Null, FALSE)
            /\ UNCHANGED next_obj
    /\ UNCHANGED <<sys_resources, sys_garbage, readers, writer, mutex, ops>>

\* load and collect_garbage take the write lock of the live map
WriteLock(t) ==
    /\ ~Idle(t)
    /\ Top(t).pc \in {"write", "gc_write"}
    /\ CanWrite(Top(t).kind)
    /\ writer' = [writer EXCEPT ![Top(t).kind] = t]
    /\ stack' = [stack EXCEPT ![t][Len(stack[t])].pc =
                    IF @ = "write" THEN "insert" ELSE "gc_pass"]
    /\ UNCHANGED <<sys_resources, sys_garbage, readers, mutex, keeps, ret, ops, next_obj>>

\* load: the insert under the write lock, and the return
InsertResource(t, keep) ==
    /\ ~Idle(t)
    /\ Top(t).pc = "insert"
    /\ sys_resources' = [sys_resources EXCEPT ![Top(t).kind] = Top(t).resource]
    /\ writer' = [writer EXCEPT ![Top(t).kind] = NoThread]
    /\ Return(t, Top(t), Top(t).resource, keep)
    /\ UNCHANGED <<sys_garbage, readers, mutex, ops, next_obj>>

\* ResourceSystem::collect_garbage is called and takes the garbage mutex
CallCollect(t, k, c) ==
    /\ Idle(t)
    /\ ops[1] + ops[2] < MaxOps
    /\ CanLock(k)
    /\ mutex' = [mutex EXCEPT ![k] = t]
    /\ stack' = [stack EXCEPT ![t] = <<Frame("collect_garbage", k, "gc_write", c)>>]
    /\ ops' = [ops EXCEPT ![t] = @ + 1]
    /\ UNCHANGED <<sys_resources, sys_garbage, readers, writer, keeps, ret, next_obj>>

\* collect_garbage moving an entry that others hold as well
OthersHoldIgnored(o) == o # Null

\* collect_garbage: the entry has no holder but the live map
NoOtherHolder(o) == o # Null /\ StrongCount(o) = 1

\* collect_garbage under both locks: the purge, the decrement, the move of
\* the unused entry to the garbage list, and the return
CollectPass(t) ==
    /\ ~Idle(t)
    /\ Top(t).pc = "gc_pass"
    /\ LET k == Top(t).kind
           aged == [i \in DOMAIN SelectSeq(sys_garbage[k], LAMBDA v : v.cycles_remaining > 0) |->
                      [SelectSeq(sys_garbage[k], LAMBDA v : v.cycles_remaining > 0)[i]
                          EXCEPT !.cycles_remaining = @ - 1]]
       IN  IF NoOtherHolder(sys_resources[k])
           THEN /\ sys_garbage' = [sys_garbage EXCEPT ![k] =
                        Append(aged, [resource |-> sys_resources[k],
                                      cycles_remaining |-> Top(t).cycles])]
                /\ sys_resources' = [sys_resources EXCEPT ![k] = Null]
           ELSE /\ sys_garbage' = [sys_garbage EXCEPT ![k] = aged]
                /\ UNCHANGED sys_resources
    /\ writer' = [writer EXCEPT ![Top(t).kind] = NoThread]
    /\ mutex' = [mutex EXCEPT ![Top(t).kind] = NoThread]
    /\ Return(t, Top(t), Null, FALSE)
    /\ UNCHANGED <<readers, ops, next_obj>>

\* the state of the ResourceManager of Spec and of the Renderer
svars == <<swapchain, resources, garbage, heap, handles, steps, panicked,
           lastLoaded, last, rvars>>

\* a step of thread `t` inside a call
InCall(t) ==
    \/ \E keep \in BOOLEAN : Lookup(t, keep)
    \/ \E ok \in BOOLEAN : LoadPipeline(t, ok)
    \/ LoadMaterial(t)
    \/ \E ok \in BOOLEAN : CreateMaterial(t, ok)
    \/ WriteLock(t)
    \/ \E keep \in BOOLEAN : InsertResource(t, keep)
    \/ CollectPass(t)

NextThreads ==
    \/ \E t \in Threads, op \in SysCalls, k \in SysKinds :
          Call(t, op, k) /\ UNCHANGED <<svars, pvars, dvars, evars, zvars, ivars, xvars>>
    \/ \E t \in Threads, k \in SysKinds, c \in SysCycles :
          CallCollect(t, k, c) /\ UNCHANGED <<svars, pvars, dvars, evars, zvars, ivars, xvars>>
    \/ \E t \in Threads : InCall(t) /\ UNCHANGED <<svars, pvars, dvars, evars, zvars, ivars, xvars>>

SpecThreads == Init /\ [][NextThreads]_vars

\* ------------------------------------------------ Swapchain::new: the picks
Min(a, b) == IF a < b THEN a ELSE b
Max(a, b) == IF a > b THEN a ELSE b

\* Swapchain::pick_present_mode
pick_present_mode(present_modes) ==
    IF \E i \in DOMAIN present_modes : present_modes[i] = "MAILBOX"
    THEN "MAILBOX" ELSE "IMMEDIATE"

\* pick_extent handing the requested extent on when the surface has none
pick_extent_unclamped(capabilities, extent) ==
    IF capabilities.current_extent.width # U32_MAX
    THEN capabilities.current_extent ELSE extent

\* Swapchain::pick_extent
pick_extent(capabilities, extent) ==
    IF capabilities.current_extent.width # U32_MAX
    THEN capabilities.current_extent
    ELSE [width |-> Max(capabilities.min_image_extent.width,
                        Min(capabilities.max_image_extent.width, extent.width)),
          height |-> Max(capabilities.min_image_extent.height,
                         Min(capabilities.max_image_extent.height, extent.height))]

\* the lists of present modes a surface reports: FIFO is always among them
ModeLists ==
    {l \in UNION {[1..n -> PresentModes] : n \in 1..MaxModes} :
        /\ \E i \in DOMAIN l : l[i] = "FIFO"
        /\ \A i, j \in DOMAIN l : i # j => l[i] # l[j]}

\* the extents of a surface's capabilities, and those a window asks for
Extents == [width : 1..MaxExtent, height : 1..MaxExtent]
Requests == [width : 0..MaxExtent + 1, height : 0..MaxExtent + 1]
Capabilities ==
    {c \in [current_extent : Extents \cup {[width |-> U32_MAX, height |-> U32_MAX]},
            min_image_extent : Extents, max_image_extent : Extents] :
        /\ c.min_image_extent.width <= c.max_image_extent.width
        /\ c.min_image_extent.height <= c.max_image_extent.height}

\* Swapchain::new is called: query_support returns
InitSwapchain ==
    /\ NewManager
    /\ NoCallers
    /\ surface \in [present_modes : ModeLists, capabilities : Capabilities,
                    extent : Requests]
    /\ picked = NothingPicked
    /\ NoWrite
    /\ NewComponentArray
    /\ NoTimer
    /\ NoFrames
    /\ NoLockCalls /\ NoRating /\ NewEntityManager

\* Swapchain::new picks the present mode
PickPresentMode ==
    /\ picked.present_mode = "none"
    /\ picked' = [picked EXCEPT !.present_mode = pick_present_mode(surface.present_modes)]
    /\ UNCHANGED <<svars, tvars, dvars, evars, zvars, ivars, xvars, surface>>

\* Swapchain::new picks the extent
PickExtent ==
    /\ picked.present_mode # "none"
    /\ picked.extent = NoExtent
    /\ picked' = [picked EXCEPT !.extent = pick_extent(surface.capabilities, surface.extent)]
    /\ UNCHANGED <<svars, tvars, dvars, evars, zvars, ivars, xvars, surface>>

NextSwapchain == PickPresentMode \/ PickExtent

SpecSwapchain == InitSwapchain /\ [][NextSwapchain]_vars

\* ------------------------------------------- DescriptorSet::write: the call
MismatchedBinding(ty, expected, supplied) ==
    [err |-> "MismatchedBinding", ty |-> ty, expected |-> expected,
     supplied |-> supplied, writes |-> <<>>]

\* the loops of write over the sets and the bindings: `n` writes are made,
\* `nb` of them of a uniform buffer, `ni` of an image
RECURSIVE DescriptorWrites(_, _, _, _, _)
DescriptorWrites(a, n, nb, ni, acc) ==
    IF n = a.sets * Len(a.bindings) THEN acc
    ELSE LET set == n \div Len(a.bindings)
             slot == n % Len(a.bindings)
         IN  IF a.bindings[slot + 1] = "UniformBuffer"
             THEN DescriptorWrites(a, n + 1, nb + 1, ni,
                    Append(acc, [dst_set |-> set, dst_binding |-> slot,
                                 ty |-> "UNIFORM_BUFFER", buffer |-> nb]))
             ELSE DescriptorWrites(a, n + 1, nb, ni + 1,
                    Append(acc, [dst_set |-> set, dst_binding |-> slot,
                                 ty |-> "COMBINED_IMAGE_SAMPLER", texture |-> ni,
                                 sampler |-> ni]))

\* write without the check of the samplers
write_samplers_unchecked(a) ==
    LET ub_count == Len(SelectSeq(a.bindings, LAMBDA b : b = "UniformBuffer")) * a.sets
        images_count ==
            Len(SelectSeq(a.bindings, LAMBDA b : b = "CombinedImageSampler")) * a.sets
    IN  IF ub_count # a.buffers
        THEN MismatchedBinding("UNIFORM_BUFFER", ub_count, a.buffers)
        ELSE IF images_count # a.textures
        THEN MismatchedBinding("COMBINED_IMAGE_SAMPLER", images_count, a.textures)
        ELSE [err |-> "none", ty |-> "none", expected |-> 0, supplied |-> 0,
              writes |-> DescriptorWrites(a, 0, 0, 0, <<>>)]

\* DescriptorSet::write
write(a) ==
    LET ub_count == Len(SelectSeq(a.bindings, LAMBDA b : b = "UniformBuffer")) * a.sets
        images_count ==
            Len(SelectSeq(a.bindings, LAMBDA b : b = "CombinedImageSampler")) * a.sets
    IN  IF ub_count # a.buffers
        THEN MismatchedBinding("UNIFORM_BUFFER", ub_count, a.buffers)
        ELSE IF images_count # a.textures
        THEN MismatchedBinding("COMBINED_IMAGE_SAMPLER", images_count, a.textures)
        ELSE IF images_count # a.samplers
        THEN MismatchedBinding("COMBINED_IMAGE_SAMPLER", images_count, a.samplers)
        ELSE [err |-> "none", ty |-> "none", expected |-> 0, supplied |-> 0,
              writes |-> DescriptorWrites(a, 0, 0, 0, <<>>)]

\* the calls of DescriptorSet::write there are
WriteArgs ==
    [bindings : UNION {[1..n -> DescriptorTypes] : n \in 0..MaxBindings},
     sets : 0..MaxSupplied, buffers : 0..MaxSupplied, textures : 0..MaxSupplied,
     samplers : 0..MaxSupplied]

\* DescriptorSet::write is called
InitDescriptors ==
    /\ NewManager
    /\ NoCallers
    /\ NoSwapchainNew
    /\ write_args \in WriteArgs
    /\ write_result = NotCalled
    /\ NewComponentArray
    /\ NoTimer
    /\ NoFrames
    /\ NoLockCalls /\ NoRating /\ NewEntityManager

\* DescriptorSet::write returns
Write ==
    /\ write_result = NotCalled
    /\ write_result' = write(write_args)
    /\ UNCHANGED <<svars, tvars, pvars, evars, zvars, ivars, xvars, write_args>>

NextDescriptors == Write

SpecDescriptors == InitDescriptors /\ [][NextDescriptors]_vars

\* ----------------------------------------------------- ComponentArray: calls
\* a call on the array returns `res`, or panics on an index out of bounds
Returned(op, e, res, panic) ==
    /\ array_ret' = [op |-> op, entity |-> e, res |-> res, expected |-> latest[e],
                     panicked |-> panic]
    /\ array_calls' = array_calls + 1

\* the call can be made
CanCall == array_calls < MaxCalls /\ ~array_ret.panicked

\* Vec::remove(index): the elements after `index` move down by one
VecRemove(v, index) ==
    [i \in 1..Len(v) - 1 |-> IF i <= index THEN v[i] ELSE v[i + 1]]

\* ComponentArray::get_component
GetComponent(e) ==
    /\ CanCall
    /\ IF entity_map[e] = NoIndex THEN Returned("get", e, NoComponent, FALSE)
       ELSE IF entity_map[e] >= Len(components)
       THEN Returned("get", e, NoComponent, TRUE)
       ELSE Returned("get", e, components[entity_map[e] + 1], FALSE)
    /\ UNCHANGED <<entity_map, components, latest>>

\* ComponentArray::insert_component
InsertComponent(e) ==
    /\ CanCall
    /\ LET component == [of |-> e, n |-> array_calls + 1]
       IN  /\ IF entity_map[e] # NoIndex
              THEN IF entity_map[e] >= Len(components)
                   THEN /\ Returned("insert", e, NoComponent, TRUE)
                        /\ UNCHANGED <<entity_map, components>>
                   ELSE /\ Returned("insert", e, components[entity_map[e] + 1], FALSE)
                        /\ components' = [components EXCEPT ![entity_map[e] + 1] = component]
                        /\ UNCHANGED entity_map
              ELSE /\ Returned("insert", e, NoComponent, FALSE)
                   /\ components' = Append(components, component)
                   /\ entity_map' = [entity_map EXCEPT ![e] = Len(components)]
           /\ latest' = [latest EXCEPT ![e] = component]

\* ComponentArray::remove_component
RemoveComponent(e) ==
    /\ CanCall
    /\ IF entity_map[e] = NoIndex
       THEN /\ Returned("remove", e, NoComponent, FALSE)
            /\ UNCHANGED <<entity_map, components>>
       ELSE /\ entity_map' = [entity_map EXCEPT ![e] = NoIndex]
            /\ IF entity_map[e] >= Len(components)
               THEN /\ Returned("remove", e, NoComponent, TRUE)
                    /\ UNCHANGED components
               ELSE /\ Returned("remove", e, components[entity_map[e] + 1], FALSE)
                    /\ components' = VecRemove(components, entity_map[e])
    /\ latest' = [latest EXCEPT ![e] = NoComponent]

NextArray ==
    \/ \E e \in Entities : GetComponent(e) /\ UNCHANGED <<svars, tvars, pvars, dvars, zvars, ivars, xvars>>
    \/ \E e \in Entities : InsertComponent(e) /\ UNCHANGED <<svars, tvars, pvars, dvars, zvars, ivars, xvars>>
    \/ \E e \in Entities : RemoveComponent(e) /\ UNCHANGED <<svars, tvars, pvars, dvars, zvars, ivars, xvars>>

SpecArray == Init /\ [][NextArray]_vars

\* ------------------------------------------------------------- Timer: calls
\* Instant::saturating_duration_since
saturating_duration_since(now, earlier) == IF now > earlier THEN now - earlier ELSE 0

\* Timer::duration
duration(t, now) ==
    IF t.stopped = NoDuration THEN saturating_duration_since(now, t.start)
    ELSE t.stopped

\* Timer::signaled
signaled(t, now) ==
    IF t.target # NoDuration THEN duration(t, now) >= t.target ELSE FALSE

\* Timer::remaining; Duration::checked_sub is None when the target has passed
remaining(t, now) ==
    IF t.stopped # NoDuration THEN NoDuration
    ELSE IF t.target = NoDuration THEN NoDuration
    ELSE IF t.target >= saturating_duration_since(now, t.start)
         THEN t.target - saturating_duration_since(now, t.start)
         ELSE NoDuration

\* Timer::start or Timer::with_target is called
InitTimer ==
    /\ NewManager
    /\ NoCallers /\ NoSwapchainNew /\ NoWrite /\ NewComponentArray /\ NoFrames
    /\ NoLockCalls /\ NoRating /\ NewEntityManager
    /\ clock = 0
    /\ timer \in {NewTimer(0, d) : d \in {NoDuration} \cup 1..MaxTarget}
    /\ timer_last = [op |-> "new"]

\* time passes
Tick ==
    /\ clock < MaxTime
    /\ clock' = clock + 1
    /\ timer_last' = [op |-> "tick"]
    /\ UNCHANGED timer

\* Timer::stop
TimerStop ==
    /\ timer' = [timer EXCEPT !.stopped = saturating_duration_since(clock, timer.start)]
    /\ timer_last' = [op |-> "stop"]
    /\ UNCHANGED clock

\* Timer::restart
TimerRestart ==
    /\ timer' = [timer EXCEPT !.start = clock, !.stopped = NoDuration]
    /\ timer_last' = [op |-> "restart"]
    /\ UNCHANGED clock

NextTimer ==
    \/ Tick /\ UNCHANGED <<svars, tvars, pvars, dvars, evars, ivars, xvars>>
    \/ TimerStop /\ UNCHANGED <<svars, tvars, pvars, dvars, evars, ivars, xvars>>
    \/ TimerRestart /\ UNCHANGED <<svars, tvars, pvars, dvars, evars, ivars, xvars>>

SpecTimer == InitTimer /\ [][NextTimer]_vars

\* ------------------------------------ Renderer.images_in_flight: the calls
\* the numbers of images vkCreateSwapchainKHR makes when asked for at least
\* image_count
ImageCounts == image_count..MaxImages

\* Renderer::new over a swapchain of `n` images
InitImages ==
    /\ NewManager
    /\ NoCallers /\ NoSwapchainNew /\ NoWrite /\ NewComponentArray /\ NoTimer
    /\ NoLockCalls /\ NoRating /\ NewEntityManager
    /\ swapchain_images \in ImageCounts
    /\ in_flight = [i \in 1..swapchain_images |-> NullFence]
    /\ frame_slot = 0
    /\ indexed = [op |-> "new", panicked |-> FALSE]

\* a draw_frame in which every call succeeds and acquire_next_image returns
\* image `i` of Data.swapchain: the image is claimed for the frame slot, or
\* the index into images_in_flight is out of bounds
DrawImage(i) ==
    /\ ~indexed.panicked
    /\ i < swapchain_images
    /\ IF i >= Len(in_flight)
       THEN /\ indexed' = [op |-> "draw_frame", panicked |-> TRUE]
            /\ UNCHANGED <<in_flight, frame_slot>>
       ELSE /\ in_flight' = [in_flight EXCEPT ![i + 1] = frame_slot]
            /\ frame_slot' = (frame_slot + 1) % MAX_FRAMES_IN_FLIGHT
            /\ indexed' = [op |-> "draw_frame", panicked |-> FALSE]
    /\ UNCHANGED swapchain_images

\* a draw_frame that finds the swapchain stale: Renderer::recreate replaces
\* self.data with a Data over a new swapchain of `n` images
RecreateImages(n) ==
    /\ ~indexed.panicked
    /\ swapchain_images' = n
    /\ indexed' = [op |-> "recreate", panicked |-> FALSE]
    /\ UNCHANGED <<in_flight, frame_slot>>

NextImages ==
    \/ \E i \in 0..MaxImages - 1 :
          DrawImage(i) /\ UNCHANGED <<svars, tvars, pvars, dvars, evars, zvars, xvars>>
    \/ \E n \in ImageCounts :
          RecreateImages(n) /\ UNCHANGED <<svars, tvars, pvars, dvars, evars, zvars, xvars>>

SpecImages == InitImages /\ [][NextImages]_vars

\* ------------------------------------- ResourceManager: the order of locking
\* the calls the threads make on the shared manager
LockCalls == {"recreate", "set_swapchain", "collect_garbage", "load_texture",
              "load_renderpass", "load_pipeline", "load_material"}
\* the policies an RwLock of std can have: std::sync::RwLock does not say
\* whether a read() behind a waiting write() is let in
Policies == {"readers_first", "writers_first"}

\* one step of a call: `op` on the RwLock or Mutex `lock`; a lookup that
\* finds the entry, and a rebuild of a kind without an entry, leave out the
\* next `skip` steps
Op(op, lock, skip) == [op |-> op, lock |-> lock, skip |-> skip]

\* ResourceManager::get_swapchain: the read guard is dropped on return
GetSwapchain == <<Op("read", "swapchain", 0)>>

\* ResourceSystem::load of kind `k`, T::load taking the steps `body`: the
\* lookup under the read guard, T::load with no guard held, the insert
\* under the write guard
SystemLoad(k, body) ==
    <<Op("lookup", k, Len(body) + 1)>> \o body \o <<Op("insert", k, 0)>>

LoadTextureLocks == SystemLoad("texture", <<>>)
\* RenderPass::load
LoadRenderpassLocks == SystemLoad("renderpass", GetSwapchain)
\* Pipeline::new: get_swapchain, then load_renderpass
PipelineNewLocks == GetSwapchain \o LoadRenderpassLocks
LoadPipelineLocks == SystemLoad("pipeline", PipelineNewLocks)
\* Material::new: load_pipeline, load_texture, then get_swapchain
MaterialNewLocks == LoadPipelineLocks \o LoadTextureLocks \o GetSwapchain
LoadMaterialLocks == SystemLoad("material", MaterialNewLocks)

\* one scope of ResourceManager::recreate: the write guard of the live map
\* of kind `k` is held while every entry is rebuilt with the steps `body`
RecreateScope(k, body) ==
    <<Op("acquire_write", k, Len(body))>> \o body \o <<Op("release", k, 0)>>

\* ResourceManager::recreate: the swapchain read guard is held to the end
RecreateLocks ==
    <<Op("acquire_read", "swapchain", 0)>>
    \o RecreateScope("renderpass", <<>>)
    \o RecreateScope("pipeline", PipelineNewLocks)
    \o RecreateScope("material", MaterialNewLocks)
    \o <<Op("release", "swapchain", 0)>>

\* ResourceManager::set_swapchain
SetSwapchainLocks == <<Op("acquire_write", "swapchain", 0), Op("release", "swapchain", 0)>>

\* ResourceSystem::collect_garbage of kind `k`: the garbage Mutex, then the
\* write guard of the live map, both held to the end
SystemCollect(k) == <<Op("lock", k, 0), Op("collect", k, 0)>>

\* ResourceManager::collect_garbage
CollectLocks ==
    SystemCollect("texture") \o SystemCollect("renderpass")
    \o SystemCollect("pipeline") \o SystemCollect("material")

\* the steps of a call
Script(c) ==
    CASE c = "recreate" -> RecreateLocks
      [] c = "set_swapchain" -> SetSwapchainLocks
      [] c = "collect_garbage" -> CollectLocks
      [] c = "load_texture" -> LoadTextureLocks
      [] c = "load_renderpass" -> LoadRenderpassLocks
      [] c = "load_pipeline" -> LoadPipelineLocks
      [] c = "load_material" -> LoadMaterialLocks

\* Renderer::new has set the swapchain and loaded the default material and
\* render pass; no thread in a call
InitLocks ==
    /\ NewManager
    /\ NoCallers /\ NoSwapchainNew /\ NoWrite /\ NewComponentArray /\ NoTimer
    /\ NoFrames /\ NoRating /\ NewEntityManager
    /\ policy \in Policies
    /\ cached = [k \in LockKinds |-> TRUE]
    /\ rw_readers = [l \in Locks |-> {}]
    /\ rw_writer = [l \in Locks |-> NoThread]
    /\ garbage_mutex = [k \in LockKinds |-> NoThread]
    /\ script = [t \in Threads |-> <<>>]
    /\ in_call = [t \in Threads |-> "none"]
    /\ lock_calls = 0

\* RwLock::write returns: no guard of the lock is held
WriteGranted(l) == rw_writer[l] = NoThread /\ rw_readers[l] = {}

\* thread `u` is in RwLock::write of `l`, waiting
WaitsToWrite(u, l) ==
    /\ script[u] # <<>>
    /\ Head(script[u]).op \in {"acquire_write", "insert", "collect"}
    /\ Head(script[u]).lock = l
    /\ ~WriteGranted(l)

\* RwLock::read returns to thread `t`: no write guard is held and, where
\* writers go first, no other thread waits to write
ReadGranted(l, t) ==
    /\ rw_writer[l] = NoThread
    /\ policy = "writers_first" => \A u \in Threads \ {t} : ~WaitsToWrite(u, l)

\* the next step of thread `t` does not block
CanStep(t) ==
    /\ script[t] # <<>>
    /\ LET o == Head(script[t])
       IN  CASE o.op \in {"read", "lookup", "acquire_read"} -> ReadGranted(o.lock, t)
             [] o.op \in {"acquire_write", "insert", "collect"} -> WriteGranted(o.lock)
             [] o.op = "lock" -> garbage_mutex[o.lock] = NoThread
             [] o.op = "release" -> TRUE

\* the steps left after the next one, `skip` of them left out
Rest(t, skip) == SubSeq(script[t], 2 + skip, Len(script[t]))

\* the call of thread `t` goes on with the steps `rest`, or returns
GoOn(t, rest) ==
    /\ script' = [script EXCEPT ![t] = rest]
    /\ in_call' = [in_call EXCEPT ![t] = IF rest = <<>> THEN "none" ELSE @]

\* a thread calls the manager
StartCall(t, c) ==
    /\ script[t] = <<>>
    /\ lock_calls < MaxLockCalls
    /\ lock_calls' = lock_calls + 1
    /\ script' = [script EXCEPT ![t] = Script(c)]
    /\ in_call' = [in_call EXCEPT ![t] = c]
    /\ UNCHANGED <<policy, cached, rw_readers, rw_writer, garbage_mutex>>

\* get_swapchain, or the lookup of ResourceSystem::load: a read guard taken
\* and dropped
ReadStep(t) ==
    /\ CanStep(t)
    /\ Head(script[t]).op \in {"read", "lookup"}
    /\ LET o == Head(script[t])
       IN  GoOn(t, Rest(t, IF o.op = "lookup" /\ cached[o.lock] THEN o.skip ELSE 0))
    /\ UNCHANGED <<policy, cached, rw_readers, rw_writer, garbage_mutex, lock_calls>>

\* the read guard of the swapchain that recreate keeps
AcquireRead(t) ==
    /\ CanStep(t)
    /\ Head(script[t]).op = "acquire_read"
    /\ rw_readers' = [rw_readers EXCEPT ![Head(script[t]).lock] = @ \cup {t}]
    /\ GoOn(t, Rest(t, 0))
    /\ UNCHANGED <<policy, cached, rw_writer, garbage_mutex, lock_calls>>

\* the write guard of set_swapchain, or of a scope of recreate, which
\* rebuilds the entries there are
AcquireWrite(t) ==
    /\ CanStep(t)
    /\ Head(script[t]).op = "acquire_write"
    /\ LET o == Head(script[t])
       IN  /\ rw_writer' = [rw_writer EXCEPT ![o.lock] = t]
           /\ GoOn(t, Rest(t, IF o.lock \in LockKinds /\ ~cached[o.lock]
                               THEN o.skip ELSE 0))
    /\ UNCHANGED <<policy, cached, rw_readers, garbage_mutex, lock_calls>>

\* a guard is dropped
ReleaseGuard(t) ==
    /\ CanStep(t)
    /\ Head(script[t]).op = "release"
    /\ LET l == Head(script[t]).lock
       IN  IF rw_writer[l] = t
           THEN rw_writer' = [rw_writer EXCEPT ![l] = NoThread] /\ UNCHANGED rw_readers
           ELSE rw_readers' = [rw_readers EXCEPT ![l] = @ \ {t}] /\ UNCHANGED rw_writer
    /\ GoOn(t, Rest(t, 0))
    /\ UNCHANGED <<policy, cached, garbage_mutex, lock_calls>>

\* the insert of ResourceSystem::load under the write guard
InsertEntry(t) ==
    /\ CanStep(t)
    /\ Head(script[t]).op = "insert"
    /\ cached' = [cached EXCEPT ![Head(script[t]).lock] = TRUE]
    /\ GoOn(t, Rest(t, 0))
    /\ UNCHANGED <<policy, rw_readers, rw_writer, garbage_mutex, lock_calls>>

\* collect_garbage locks the garbage Mutex
LockGarbage(t) ==
    /\ CanStep(t)
    /\ Head(script[t]).op = "lock"
    /\ garbage_mutex' = [garbage_mutex EXCEPT ![Head(script[t]).lock] = t]
    /\ GoOn(t, Rest(t, 0))
    /\ UNCHANGED <<policy, cached, rw_readers, rw_writer, lock_calls>>

\* collect_garbage under the write guard: the entry goes to the garbage
\* list when nobody else holds it, which a cached material does for its
\* pipeline and texture and a caller may do for any entry; both guards are
\* dropped
CollectEntry(t, evict) ==
    /\ CanStep(t)
    /\ Head(script[t]).op = "collect"
    /\ LET k == Head(script[t]).lock
       IN  /\ evict => (cached[k] /\ (k \in {"pipeline", "texture"} => ~cached["material"]))
           /\ cached' = [cached EXCEPT ![k] = IF evict THEN FALSE ELSE @]
           /\ garbage_mutex' = [garbage_mutex EXCEPT ![k] = NoThread]
    /\ GoOn(t, Rest(t, 0))
    /\ UNCHANGED <<policy, rw_readers, rw_writer, lock_calls>>

NextLocks ==
    \/ \E t \in Threads, c \in LockCalls :
          StartCall(t, c) /\ UNCHANGED <<svars, tvars, pvars, dvars, evars, zvars, ivars, cvars, nvars>>
    \/ \E t \in Threads :
          ReadStep(t) /\ UNCHANGED <<svars, tvars, pvars, dvars, evars, zvars, ivars, cvars, nvars>>
    \/ \E t \in Threads :
          AcquireRead(t) /\ UNCHANGED <<svars, tvars, pvars, dvars, evars, zvars, ivars, cvars, nvars>>
    \/ \E t \in Threads :
          AcquireWrite(t) /\ UNCHANGED <<svars, tvars, pvars, dvars, evars, zvars, ivars, cvars, nvars>>
    \/ \E t \in Threads :
          ReleaseGuard(t) /\ UNCHANGED <<svars, tvars, pvars, dvars, evars, zvars, ivars, cvars, nvars>>
    \/ \E t \in Threads :
          InsertEntry(t) /\ UNCHANGED <<svars, tvars, pvars, dvars, evars, zvars, ivars, cvars, nvars>>
    \/ \E t \in Threads :
          LockGarbage(t) /\ UNCHANGED <<svars, tvars, pvars, dvars, evars, zvars, ivars, cvars, nvars>>
    \/ \E t \in Threads, evict \in BOOLEAN :
          CollectEntry(t, evict) /\ UNCHANGED <<svars, tvars, pvars, dvars, evars, zvars, ivars, cvars, nvars>>

SpecLocks == InitLocks /\ [][NextLocks]_vars

\* ------------------------------------ device selection and the image count
\* what query_support can return: the image counts of the capabilities
\* (max_image_count 0: no upper limit), and how many formats and present
\* modes there are
SupportDetails ==
    {s \in [min_image_count : 1..MaxCount, max_image_count : 0..MaxCount,
            formats : 0..1, present_modes : 0..1] :
        s.max_image_count = 0 \/ s.max_image_count >= s.min_image_count}

\* rate_device accepting a device whatever max_image_count is
rate_device_ignoring_max(s) ==
    IF s.min_image_count > SWAPCHAIN_IMAGE_COUNT THEN 0
    ELSE IF s.formats = 0 THEN 0
    ELSE IF s.present_modes = 0 THEN 0
    ELSE 1

\* rate_device, for a device with the extensions and the queue families:
\* 0 when the swapchain support is not adequate, otherwise a score above 0,
\* of which the model keeps the 1 it starts from
rate_device(s) ==
    IF \/ s.min_image_count > SWAPCHAIN_IMAGE_COUNT
       \/ (s.max_image_count # 0 /\ s.max_image_count < SWAPCHAIN_IMAGE_COUNT)
    THEN 0
    ELSE IF s.formats = 0 THEN 0
    ELSE IF s.present_modes = 0 THEN 0
    ELSE 1

\* one physical device and a surface, not rated yet
InitImageCount ==
    /\ NewManager
    /\ NoCallers /\ NoSwapchainNew /\ NoWrite /\ NewComponentArray /\ NoTimer
    /\ NoFrames /\ NoLockCalls /\ NewEntityManager
    /\ support \in SupportDetails
    /\ score = NotRated
    /\ create_info = NoCreateInfo

\* find_physical_device rates the device
RateDevice ==
    /\ score = NotRated
    /\ score' = rate_device(support)
    /\ UNCHANGED <<support, create_info>>

\* Swapchain::new on the device that find_physical_device returned, one
\* with a score above 0: the create info asks for min_image_count images
SwapchainNew ==
    /\ score > 0
    /\ create_info = NoCreateInfo
    /\ create_info' = [min_image_count |-> image_count]
    /\ UNCHANGED <<support, score>>

NextImageCount ==
    \/ RateDevice /\ UNCHANGED <<svars, tvars, pvars, dvars, evars, zvars, ivars, lvars, nvars>>
    \/ SwapchainNew /\ UNCHANGED <<svars, tvars, pvars, dvars, evars, zvars, ivars, lvars, nvars>>

SpecImageCount == InitImageCount /\ [][NextImageCount]_vars

\* ------------------------------------------------------------ EntityManager
\* the ids a caller passes to destroy_entity
EntityIds == 0..MaxIds

InitEntities ==
    /\ NewManager
    /\ NoCallers /\ NoSwapchainNew /\ NoWrite /\ NewComponentArray /\ NoTimer
    /\ NoFrames /\ NoLockCalls /\ NoRating
    /\ NewEntityManager

\* history: a call returns
EntityReturned(op, id) ==
    /\ entity_last' = [op |-> op, id |-> id, was_alive |-> id \in alive]
    /\ entity_calls' = entity_calls + 1

\* EntityManager::create_entity: the id popped from free_ids, or else
\* alive_count, which grows by one
CreateEntity ==
    /\ entity_calls < MaxEntityCalls
    /\ IF free_ids # <<>>
       THEN /\ free_ids' = SubSeq(free_ids, 1, Len(free_ids) - 1)
            /\ alive' = alive \cup {free_ids[Len(free_ids)]}
            /\ EntityReturned("create_entity", free_ids[Len(free_ids)])
            /\ UNCHANGED alive_count
       ELSE /\ alive_count < MaxIds
            /\ alive_count' = alive_count + 1
            /\ alive' = alive \cup {alive_count}
            /\ EntityReturned("create_entity", alive_count)
            /\ UNCHANGED free_ids

\* EntityManager::destroy_entity: an id of alive_count or above is logged
\* as invalid, any other is pushed onto free_ids
DestroyEntity(e) ==
    /\ entity_calls < MaxEntityCalls
    /\ IF e >= alive_count
       THEN UNCHANGED <<alive_count, free_ids, alive>>
       ELSE /\ free_ids' = Append(free_ids, e)
            /\ alive' = alive \ {e}
            /\ UNCHANGED alive_count
    /\ EntityReturned("destroy_entity", e)

NextEntities ==
    \/ CreateEntity /\ UNCHANGED <<svars, tvars, pvars, dvars, evars, zvars, ivars, lvars, cvars>>
    \/ \E e \in EntityIds :
          DestroyEntity(e) /\ UNCHANGED <<svars, tvars, pvars, dvars, evars, zvars, ivars, lvars, cvars>>

SpecEntities == InitEntities /\ [][NextEntities]_vars

\* ------------------------------------------------------------ ResourceSystem
Now == World(Held)

InGarbage(g, k, p, n) ==
    \E i \in DOMAIN g[k] : g[k][i].path = p /\ g[k][i].resource = n

\* C1: a load(p) that follows a successful load(p), with no collect_garbage
\* pass that evicted p and no recreate in between, returns the object the
\* earlier call returned, does not run T::load and does not add an entry to
\* the live map.
CacheIdentity ==
    last.op \in {"load", "recreate"} =>
        \A i \in DOMAIN last.log :
            last.log[i].before # NoObj =>
                /\ last.log[i].res = last.log[i].before
                /\ ~last.log[i].ran
                /\ ~last.log[i].grew

CacheIdentityWitness ==
    /\ last.op = "load"
    /\ last.log # <<>>
    /\ last.log[Len(last.log)].kind = last.kind
    /\ last.log[Len(last.log)].before # NoObj
    /\ last.res = last.log[Len(last.log)].before
    /\ resources[last.kind][last.path] = last.res

\* C2: an entry evicted by collect_garbage(2) is gone from the garbage list
\* once 2 further collect_garbage calls have run.
EvictionCountdown ==
    \A k \in Kinds : \A i \in DOMAIN garbage[k] :
        garbage[k][i].grace = 2 => garbage[k][i].age < 2

\* C3: a collect_garbage pass leaves every live entry whose strong count is
\* 2 or more in the live map under its path, and an allocation a caller
\* holds a handle to is never in the garbage list nor destroyed.
HeldSurvivesCollect ==
    [][/\ \A h \in handles' :
            /\ h.gen \in DOMAIN heap'[h.kind][h.path]
            /\ ~InGarbage(garbage', h.kind, h.path, h.gen)
       /\ last'.op = "collect_garbage" =>
            \A k \in Kinds, p \in Paths :
                (resources[k][p] # NoObj /\ Strong(Now, k, p, resources[k][p]) >= 2) =>
                    /\ resources'[k][p] = resources[k][p]
                    /\ resources[k][p] \in DOMAIN heap'[k][p]
                    /\ ~InGarbage(garbage', k, p, resources[k][p])]_vars

HeldSurvivesCollectWitness ==
    /\ last.op = "collect_garbage"
    /\ \E h \in handles : resources[h.kind][h.path] = h.gen
    /\ \E k \in Kinds : garbage[k] # <<>>

\* C34: no load_renderpass, load_pipeline or load_material and no
\* ResourceManager::recreate aborts the thread: called while the manager's
\* swapchain slot is empty, each returns an error.
LoadsNeverAbort ==
    /\ ~panicked
    /\ (last.op \in {"load", "recreate"} /\ swapchain = NoSwapchain
        /\ (last.op = "load" => last.kind \in {"renderpass", "pipeline", "material"})) =>
            last.res = NoObj

\* C4: a load whose T::load fails returns the error and leaves the live map
\* and the garbage list of that ResourceSystem as they were.
FailedLoadKeepsCache ==
    [][(last'.op = "load" /\ ~panicked') =>
        \A i \in DOMAIN last'.log :
            (last'.log[i].ran /\ last'.log[i].res = NoObj) =>
                /\ resources'[last'.log[i].kind] = resources[last'.log[i].kind]
                /\ garbage'[last'.log[i].kind] = garbage[last'.log[i].kind]
                /\ last'.res = NoObj]_vars

FailedLoadKeepsCacheWitness ==
    /\ last.op = "load"
    /\ ~panicked
    /\ last.res = NoObj
    /\ Count(resources[last.kind]) > 0
    /\ resources[last.kind][last.path] = NoObj

\* C22: one collect_garbage(c) pass over a ResourceSystem drops the garbage
\* entries whose cycles_remaining is 0, takes 1 from the cycles_remaining of
\* the others and keeps their order, and moves every live entry with strong
\* count 1 behind them with cycles_remaining = c; the other live entries
\* stay where they are.
CollectPassSteps ==
    [][last'.op = "collect_garbage" =>
        \A k \in Kinds :
            LET evicted == {p \in Paths : /\ resources[k][p] # NoObj
                                          /\ Strong(Now, k, p, resources[k][p]) = 1}
                survivors == SelectSeq(garbage[k], LAMBDA v : v.cycles_remaining # 0)
                n == Len(survivors)
            IN  /\ Len(garbage'[k]) = n + Cardinality(evicted)
                /\ \A i \in 1..n :
                      /\ garbage'[k][i].path = survivors[i].path
                      /\ garbage'[k][i].resource = survivors[i].resource
                      /\ garbage'[k][i].cycles_remaining = survivors[i].cycles_remaining - 1
                /\ {<<garbage'[k][i].path, garbage'[k][i].resource>> :
                        i \in n + 1..Len(garbage'[k])}
                   = {<<p, resources[k][p]>> : p \in evicted}
                /\ \A i \in n + 1..Len(garbage'[k]) :
                      garbage'[k][i].cycles_remaining = last'.cycles
                /\ \A p \in Paths :
                      resources'[k][p] = IF p \in evicted THEN NoObj ELSE resources[k][p]]_vars

\* a pass has taken 1 from an entry evicted by the pass before and has put
\* an entry of the same kind behind it
CollectPassStepsWitness ==
    /\ last.op = "collect_garbage"
    /\ \E k \in Kinds :
          /\ Len(garbage[k]) = 2
          /\ garbage[k][1].cycles_remaining = garbage[k][1].grace - 1
          /\ garbage[k][2].cycles_remaining = last.cycles
          /\ garbage[k][2].cycles_remaining = garbage[k][2].grace

\* C38: the cycles_remaining of a garbage entry is never below 0 nor above
\* the garbage_cycles of the pass that evicted it, which no pass made so far
\* exceeds: it is that number less the passes the entry has been through;
\* an entry whose cycles_remaining is 0, one evicted by collect_garbage(0)
\* among them, is gone after the next pass.
CyclesNeverUnderflow ==
    [][/\ \A k \in Kinds : \A i \in DOMAIN garbage'[k] :
            LET e == garbage'[k][i]
            IN  /\ 0 <= e.cycles_remaining
                /\ e.cycles_remaining <= e.grace
                /\ e.cycles_remaining = e.grace - e.age
                /\ e.grace \in 0..MaxCycles
       /\ last'.op = "collect_garbage" =>
            \A k \in Kinds : \A i \in DOMAIN garbage[k] :
                garbage[k][i].cycles_remaining = 0 =>
                    ~InGarbage(garbage', k, garbage[k][i].path, garbage[k][i].resource)]_vars

\* a collect_garbage(0) has evicted an entry and has taken the last cycle
\* from one that an earlier pass evicted
CyclesNeverUnderflowWitness ==
    /\ last.op = "collect_garbage"
    /\ last.cycles = 0
    /\ \E k \in Kinds : \E i \in DOMAIN garbage[k] :
            garbage[k][i].grace = 0 /\ garbage[k][i].age = 0
    /\ \E k \in Kinds : \E i \in DOMAIN garbage[k] :
            garbage[k][i].grace > 0 /\ garbage[k][i].cycles_remaining = 0

\* an evicted resource of path `p` waits in the garbage list, and `p` has
\* not been loaded since
Pending(k, p) ==
    /\ resources[k][p] = NoObj
    /\ \E i \in DOMAIN garbage[k] : garbage[k][i].path = p

\* C23: a resource in the garbage list is never the live entry of its path;
\* while an evicted resource of path p waits there, p has no live entry
\* (get returns None) until a load(p), made by a caller or by a loader
\* inside a load or a recreate, and that load runs T::load and, when it
\* succeeds, inserts an allocation that did not exist before; a load leaves
\* every garbage list as it was.
GarbageNeverResurrected ==
    [][/\ \A k \in Kinds, p \in Paths :
            resources'[k][p] # NoObj => ~InGarbage(garbage', k, p, resources'[k][p])
       /\ \A k \in Kinds, p \in Paths :
            (Pending(k, p) /\ resources'[k][p] # NoObj) =>
                /\ last'.op \in {"load", "recreate"}
                /\ \E i \in DOMAIN last'.log :
                      /\ last'.log[i].kind = k /\ last'.log[i].path = p
                      /\ last'.log[i].ran
                      /\ last'.log[i].res = resources'[k][p]
                /\ resources'[k][p] \notin DOMAIN heap[k][p]
       /\ last'.op \in {"load", "recreate"} =>
            /\ garbage' = garbage
            /\ \A i \in DOMAIN last'.log :
                  Pending(last'.log[i].kind, last'.log[i].path) => last'.log[i].ran]_vars

\* a path was loaded again while the resource evicted from it waits in the
\* garbage list
GarbageNeverResurrectedWitness ==
    /\ last.op = "load"
    /\ last.res # NoObj
    /\ resources[last.kind][last.path] = last.res
    /\ \E i \in DOMAIN garbage[last.kind] :
          /\ garbage[last.kind][i].path = last.path
          /\ garbage[last.kind][i].resource # last.res

\* ----------------------------------------------------------- ResourceManager
\* the Materials in the live map or in the garbage list of the manager `w`
CachedMaterials(w) ==
    {<<p, w.resources["material"][p]>> :
        p \in {q \in Paths : w.resources["material"][q] # NoObj}}
    \cup {<<w.garbage["material"][i].path, w.garbage["material"][i].resource>> :
            i \in DOMAIN w.garbage["material"]}

\* the pipeline and the textures the Material `m` holds
Dependencies(w, m) ==
    {Id("pipeline", MaterialSpec(m[1]).pipeline, w.heap["material"][m[1]][m[2]].pipeline)}
    \cup {Id("texture", MaterialSpec(m[1]).textures[i],
             w.heap["material"][m[1]][m[2]].textures[i]) :
            i \in DOMAIN MaterialSpec(m[1]).textures}

\* every pipeline and texture a cached Material holds is allocated and is
\* not in a garbage list
DependenciesKept(w) ==
    \A m \in CachedMaterials(w) : \A d \in Dependencies(w, m) :
        /\ d.gen \in DOMAIN w.heap[d.kind][d.path]
        /\ ~InGarbage(w.garbage, d.kind, d.path, d.gen)

\* the materials collected first, the textures last
MaterialsFirst == <<"material", "pipeline", "renderpass", "model", "texture">>

\* C24: a pipeline or texture held by a Material that is in the live map or
\* in the garbage list is allocated and in no garbage list, and stays so
\* through a collect_garbage pass that visits the kinds in the opposite
\* order; a pass moves to the garbage only pipelines and textures that no
\* cached Material held when the pass began.
DependenciesOutliveDependents ==
    [][/\ DependenciesKept(World(Held)')
       /\ DependenciesKept(MgrCollect(Now, MaterialsFirst, 0))
       /\ last'.op = "collect_garbage" =>
            \A m \in CachedMaterials(Now) : \A d \in Dependencies(Now, m) :
                ~InGarbage(garbage', d.kind, d.path, d.gen)]_vars

\* a pass has moved a Material to the garbage list and has left its
\* pipeline and its texture in the live map
DependenciesOutliveDependentsWitness ==
    /\ last.op = "collect_garbage"
    /\ \E i \in DOMAIN garbage["material"] :
          LET m == <<garbage["material"][i].path, garbage["material"][i].resource>>
          IN  /\ Dependencies(Now, m) # {}
              /\ \A d \in Dependencies(Now, m) : resources[d.kind][d.path] = d.gen
              /\ \E d \in Dependencies(Now, m) : d.kind = "texture"

\* C5: a load that returns an error leaves the live map of every
\* ResourceSystem of the manager as it was.
FailedLoadKeepsEveryCache ==
    [][(last'.op = "load" /\ last'.res = NoObj /\ ~panicked') =>
        resources' = resources]_vars

\* C10: after a successful recreate every live pipeline was created
\* against the render pass now in the live map under its render-pass path,
\* which is not an object from before the recreate, and every live material
\* holds the pipeline now in the live map under its pipeline path, which is
\* not an object from before the recreate.
RecreateInDependencyOrder ==
    [][(last'.op = "recreate" /\ last'.res # NoObj) =>
        /\ \A p \in Paths : resources'["pipeline"][p] # NoObj =>
              LET rp == PipelineSpec(p).renderpass
                  pl == heap'["pipeline"][p][resources'["pipeline"][p]]
              IN  /\ pl.rp # NoObj
                  /\ pl.rp = resources'["renderpass"][rp]
                  /\ pl.rp \notin DOMAIN heap["renderpass"][rp]
        /\ \A p \in Paths : resources'["material"][p] # NoObj =>
              LET pl == MaterialSpec(p).pipeline
                  m == heap'["material"][p][resources'["material"][p]]
              IN  /\ m.pipeline # NoObj
                  /\ m.pipeline = resources'["pipeline"][pl]
                  /\ m.pipeline \notin DOMAIN heap["pipeline"][pl]]_vars

RecreateInDependencyOrderWitness ==
    /\ last.op = "recreate"
    /\ last.res # NoObj
    /\ \E p \in Paths : resources["material"][p] # NoObj
    /\ \E p \in Paths : resources["pipeline"][p] # NoObj

\* C25: a recreate that returns an error has stopped at one kind K of
\* render pass, pipeline, material: every entry the kinds before K had is
\* replaced by an allocation made in the recreate, and the live map of K
\* and of each kind after K is as it was before the call.
RecreateStopsAtKind ==
    [][(last'.op = "recreate" /\ last'.res = NoObj /\ ~panicked') =>
        \E K \in DOMAIN RecreateSeq :
            /\ \A j \in 1..K - 1 : \A p \in Paths :
                  resources[RecreateSeq[j]][p] # NoObj =>
                      /\ resources'[RecreateSeq[j]][p] # NoObj
                      /\ resources'[RecreateSeq[j]][p] \notin DOMAIN heap[RecreateSeq[j]][p]
            /\ \A j \in K..Len(RecreateSeq) :
                  resources'[RecreateSeq[j]] = resources[RecreateSeq[j]]]_vars

\* a recreate has failed with the render passes rebuilt and both materials
\* left as they were: the pipeline the materials hold is the live one, and
\* was built against a render pass that is not the live one
RecreateStopsAtKindWitness ==
    /\ last.op = "recreate"
    /\ last.res = NoObj
    /\ ~panicked
    /\ \A p \in Paths : resources["material"][p] # NoObj
    /\ resources["renderpass"]["a"] # NoObj
    /\ resources["pipeline"]["a"] # NoObj
    /\ \A p \in Paths :
          heap["material"][p][resources["material"][p]].pipeline = resources["pipeline"]["a"]
    /\ heap["pipeline"]["a"][resources["pipeline"]["a"]].rp # resources["renderpass"]["a"]

\* the manager after set_swapchain, load_renderpass, load_pipeline and
\* load_material of the default files, no handle kept
AfterDefaultLoads ==
    /\ steps = 4
    /\ last.op = "load" /\ last.kind = "material" /\ last.path = DefaultPath
    /\ last.res # NoObj
    /\ \E i \in DOMAIN last.log : last.log[i].kind = "pipeline" /\ ~last.log[i].ran
    /\ handles = {}
    /\ \A k \in Kinds : garbage[k] = <<>>
    /\ heap["material"]["b"] = <<>>
    /\ \A k \in {"renderpass", "pipeline", "material"} :
            /\ resources[k][DefaultPath] # NoObj
            /\ lastLoaded[k][DefaultPath] = resources[k][DefaultPath]

\* C12: after load_renderpass, load_pipeline and load_material of the
\* default files with no handle kept, info() has one entry per kind, with
\* strong_refs >= 2 for the render pass and the pipeline and strong_refs = 1
\* for the material.
EndToEndStrongCounts ==
    AfterDefaultLoads =>
        /\ \A k \in {"renderpass", "pipeline", "material"} :
                Cardinality(SysInfo(Now, k)) = 1
        /\ \A e \in SysInfo(Now, "renderpass") : e.strong_refs >= 2
        /\ \A e \in SysInfo(Now, "pipeline") : e.strong_refs >= 2
        /\ \A e \in SysInfo(Now, "material") : e.strong_refs = 1

\* ------------------------------------------- ResourceSystem under threads
\* each of the two threads has made one call, a load of kind `k` that
\* returned a resource
BothLoaded(k) ==
    \A t \in Threads :
        /\ Idle(t) /\ ops[t] = 1
        /\ ret[t].op = "load" /\ ret[t].kind = k /\ ret[t].res # Null

\* C13 as stated: two threads that load the same path, not cached before,
\* get the same object in every interleaving, and it is the live entry.
OneLivePerPathUnderThreads ==
    \A k \in SysKinds :
        BothLoaded(k) => /\ ret[1].res = ret[2].res
                         /\ sys_resources[k] = ret[1].res

\* C13 as amended: a load that finds the path cached when it is called
\* returns the cached object; when both threads missed, each returns the
\* object it loaded, and the live entry is one of the two.
LoadsRaceToInsert ==
    \A k \in SysKinds :
        BothLoaded(k) =>
            /\ sys_resources[k] \in {ret[1].res, ret[2].res}
            /\ \A t \in Threads :
                  ret[t].before # Null => (ret[t].res = ret[t].before /\ ~ret[t].ran)
            /\ (\A t \in Threads : ret[t].ran) => ret[1].res # ret[2].res

\* both threads missed and loaded
LoadsRaceToInsertWitness ==
    /\ BothLoaded("material")
    /\ ret[1].ran /\ ret[2].ran
    /\ ret[1].res # ret[2].res
    /\ sys_resources["material"] = ret[1].res

\* C14: whenever a thread is inside load, get, info or collect_garbage,
\* some thread inside a call can take its next step; only collect_garbage
\* holds the garbage mutex, and a load holds no lock of its ResourceSystem
\* while T::load runs or while it waits for the write lock.
ThreadsNeverDeadlock ==
    /\ (\E t \in Threads : ~Idle(t)) => \E t \in Threads : ENABLED InCall(t)
    /\ \A t \in Threads : \A i \in DOMAIN stack[t] :
          /\ mutex[stack[t][i].kind] = t => stack[t][i].op = "collect_garbage"
          /\ stack[t][i].pc \in {"tload", "create", "write"} =>
                /\ t \notin readers[stack[t][i].kind]
                /\ writer[stack[t][i].kind] # t

\* collect_garbage holds the garbage mutex and waits for the write lock
\* while the other thread, inside a nested load, holds a read guard
ThreadsNeverDeadlockWitness ==
    \E t \in Threads, u \in Threads :
        /\ ~Idle(t) /\ ~Idle(u)
        /\ Top(t).pc = "gc_write" /\ mutex[Top(t).kind] = t
        /\ u \in readers[Top(t).kind]
        /\ Len(stack[u]) = 2

\* C35: while a thread is in ResourceManager::recreate, some thread that
\* is in a call of the manager can take its next step: recreate, and the
\* set_swapchain, load and collect_garbage calls beside it, never all wait
\* for each other.
RecreateNeverDeadlocks ==
    (\E t \in Threads : in_call[t] = "recreate") => \E u \in Threads : CanStep(u)

\* C15: every entry of the garbage list has strong count 1.
GarbageHasNoHolder ==
    \A k \in SysKinds : \A i \in DOMAIN sys_garbage[k] :
        StrongCount(sys_garbage[k][i].resource) = 1

\* a pipeline is in the garbage list while a thread is inside a load of a
\* pipeline, between its lookup and its insert
GarbageHasNoHolderWitness ==
    /\ sys_garbage["pipeline"] # <<>>
    /\ \E t \in Threads : ~Idle(t) /\ Top(t).op = "load" /\ Top(t).kind = "pipeline"
                          /\ Top(t).pc = "write"

ImageReuseSafety ==
    [][(pc = "record" /\ calls'.record > calls.record) =>
        \A j \in DOMAIN pending :
            ~(pending[j].image = image_index /\ pending[j].swapchain = data.swapchain)]_vars

\* C9: in a draw_frame whose acquire_next_image returned out-of-date or
\* suboptimal, recreate is called once, no command buffer is recorded, no
\* fence is reset, nothing is submitted or presented, and no step changes
\* current_frame or images_in_flight.
StaleAcquireOnlyRecreates ==
    [][stale' =>
        /\ calls' = [NoCalls EXCEPT !.recreate = 1]
        /\ current_frame' = current_frame
        /\ images_in_flight' = images_in_flight]_vars

StaleAcquireOnlyRecreatesWitness ==
    /\ stale
    /\ pc = "idle"
    /\ last.op = "draw_frame"
    /\ data.swapchain > 1
    /\ \E i \in Images : images_in_flight[i] # NullFence

\* C26: current_frame is a frame slot; the step of draw_frame in which
\* present returns Ok(false), after an acquire that was not stale, one
\* recording, one fence reset and one submit, sets current_frame to
\* (current_frame + 1) mod MAX_FRAMES_IN_FLIGHT and adds 1 to frame_count;
\* no other step changes either; a present that is out of date or
\* suboptimal leads to one recreate in that draw_frame.
FrameSlotAdvance ==
    [][/\ current_frame' \in Slots
       /\ IF pc = "present" /\ pc' = "idle" /\ image_index \notin acquired'
          THEN /\ current_frame' = (current_frame + 1) % MAX_FRAMES_IN_FLIGHT
               /\ frame_count' = frame_count + 1
               /\ ~stale
               /\ calls = [recreate |-> 0, record |-> 1, reset |-> 1, submit |-> 1,
                           present |-> 0]
          ELSE /\ current_frame' = current_frame
               /\ frame_count' = frame_count
       /\ (pc = "present" /\ pc' = "recreate") =>
            calls' = [recreate |-> 1, record |-> 1, reset |-> 1, submit |-> 1,
                      present |-> 1]
       /\ (pc = "recreate" /\ pc' # "recreate") => (pc' = "idle" /\ calls' = calls)]_vars

\* the second draw_frame was submitted and presented, and the present was
\* out of date or suboptimal
FrameSlotAdvanceWitness ==
    /\ pc = "recreate"
    /\ calls.present = 1
    /\ frame_count = 1
    /\ current_frame = 1

FirstFramesNeverBlock ==
    (pc = "wait" /\ steps <= MAX_FRAMES_IN_FLIGHT /\ ~device_lost) =>
        in_flight_fences[current_frame]

\* C28 as amended: among the first MAX_FRAMES_IN_FLIGHT frames, a draw_frame
\* on a frame slot for which no earlier call has claimed an image and reset
\* the fence finds that fence signaled at its first wait, and so does each
\* of the first MAX_FRAMES_IN_FLIGHT calls when every call before it went
\* on to the next slot; images_in_flight[i] is null until a draw_frame
\* claims image i, and a fence is reset only in that step.
FreshFenceNeverBlocks ==
    [][/\ (pc' = "wait" /\ frame_count' < MAX_FRAMES_IN_FLIGHT
           /\ \A i \in Images : images_in_flight'[i] # current_frame') =>
                in_flight_fences'[current_frame']
       /\ (pc' = "wait" /\ steps' = frame_count' + 1
           /\ steps' <= MAX_FRAMES_IN_FLIGHT) =>
                in_flight_fences'[current_frame']
       /\ \A i \in Images :
            images_in_flight'[i] # images_in_flight[i] =>
                (pc = "image_wait" /\ i = image_index
                 /\ images_in_flight'[i] = current_frame)
       /\ \A s \in Slots :
            (in_flight_fences[s] /\ ~in_flight_fences'[s]) =>
                (pc = "image_wait" /\ s = current_frame)]_vars

\* the second draw_frame is at its first wait, on the fence of slot 1 that
\* no call has reset, while the batch of the first has not completed
FreshFenceNeverBlocksWitness ==
    /\ pc = "wait"
    /\ steps = 2
    /\ frame_count = 1
    /\ current_frame = 1
    /\ in_flight_fences[1]
    /\ ~in_flight_fences[0]
    /\ pending # <<>>
    /\ ~device_lost

\* C29: images_in_flight has as many entries as the swapchain of Data has
\* images, also after recreates that build a swapchain of another image
\* count, and no image index that acquire_next_image returns is out of its
\* bounds.
ImagesInFlightMatchesSwapchain ==
    /\ Len(in_flight) = swapchain_images
    /\ ~indexed.panicked

\* C30: Renderer::recreate replaces Data, sets a new swapchain and lets the
\* manager rebuild or drop resources only when no submitted batch is left
\* that has not completed and the device is not lost; when device_wait_idle
\* fails it returns with Data, the swapchain, the live maps, the garbage
\* lists and every allocation as they were.
RecreateAfterIdle ==
    [][/\ (pc = "recreate" /\ pc' # "recreate") =>
            IF device_lost
            THEN UNCHANGED <<data, swapchain, resources, garbage, heap, acquired>>
            ELSE pending = <<>>
       /\ (data' # data \/ swapchain' # swapchain) =>
            (pc = "recreate" /\ pending = <<>> /\ ~device_lost)
       /\ pending # <<>> =>
            \A j \in DOMAIN pending :
                /\ pending[j].swapchain = data'.swapchain
                /\ pending[j].swapchain = data.swapchain]_vars

\* a draw_frame has submitted a batch, its present was stale, and recreate
\* has replaced Data after the batch completed
RecreateAfterIdleWitness ==
    /\ pc = "idle"
    /\ last.op = "renderer_recreate"
    /\ last.res # NoObj
    /\ calls.submit = 1
    /\ calls.recreate = 1
    /\ pending = <<>>
    /\ ~device_lost
    /\ data.swapchain = swapchain

\* C11: after a Renderer::recreate in which ResourceManager::recreate and
\* create_data both returned Ok, every live render pass, pipeline and
\* material was built against the swapchain the manager now holds.
RecreateUsesNewSwapchain ==
    [][(last'.op = "renderer_recreate" /\ last'.manager # NoObj /\ last'.res # NoObj) =>
        \A k \in {"renderpass", "pipeline", "material"}, p \in Paths :
            resources'[k][p] # NoObj =>
                heap'[k][p][resources'[k][p]].sc = swapchain']_vars

\* C31: a Renderer::recreate in which ResourceManager::recreate returned an
\* error still runs create_data, and when create_data returns Ok its Data,
\* over a new swapchain, replaces the Renderer's; when create_data returns
\* an error the Renderer's Data and the images acquired from its swapchain
\* are as they were, and the material, model, render pass, pipeline and
\* textures that Data's command buffers use are still allocated.
RecreateFailureHandling ==
    [][(pc = "recreate" /\ pc' = "idle" /\ ~device_lost) =>
        /\ last'.op = "renderer_recreate"
        /\ IF last'.res = NoObj
           THEN /\ data' = data
                /\ acquired' = acquired
           ELSE /\ swapchain' = swapchain + 1
                /\ data'.swapchain = swapchain'
                /\ data'.material = resources'["material"][DefaultPath]
        /\ \A id \in Refs([heap |-> heap'], data') :
                id.gen \in DOMAIN heap'[id.kind][id.path]]_vars

\* ResourceManager::recreate failed and create_data went on to build the
\* Data of a new swapchain
RecreateFailureHandlingWitness ==
    /\ pc = "idle"
    /\ last.op = "renderer_recreate"
    /\ last.manager = NoObj
    /\ last.res # NoObj
    /\ data.swapchain = swapchain
    /\ data.swapchain > 1

\* C32: whenever draw_frame starts, the swapchain the manager holds is the
\* swapchain of the Renderer's Data.
SwapchainAgreement ==
    pc = "wait" => swapchain = data.swapchain

\* C33: whenever draw_frame passes image_available_semaphores[current_frame]
\* to acquire_next_image, every signal an earlier acquire put on that
\* semaphore has been waited for by a submit.
AcquireSemaphoreUnsignaled ==
    pc = "acquire" => ~image_available[current_frame]

\* C16: a fence draw_frame waits on is signaled, or a batch that was
\* submitted and has not completed will signal it, so with the GPU
\* completing every submitted batch each wait of draw_frame returns.
FenceWaitsReturn ==
    LET signals(s) == in_flight_fences[s] \/ \E j \in DOMAIN pending : pending[j].fence = s
    IN  ~device_lost =>
            /\ pc = "wait" => signals(current_frame)
            /\ (pc = "image_wait" /\ images_in_flight[image_index] # NullFence) =>
                    signals(images_in_flight[image_index])

\* ----------------------------------------------------------------- Swapchain
\* C17: the present mode picked is MAILBOX when the surface lists it, and
\* FIFO otherwise.
PresentModeSelection ==
    picked.present_mode # "none" =>
        picked.present_mode =
            IF \E i \in DOMAIN surface.present_modes : surface.present_modes[i] = "MAILBOX"
            THEN "MAILBOX" ELSE "FIFO"

Clamp(x, lo, hi) == IF x < lo THEN lo ELSE IF x > hi THEN hi ELSE x

\* C18: when current_extent.width is u32::MAX the extent picked is the
\* requested one with width and height clamped into [min_image_extent,
\* max_image_extent]; otherwise it is current_extent.
ExtentSelection ==
    picked.extent # NoExtent =>
        LET c == surface.capabilities
        IN  IF c.current_extent.width = U32_MAX
            THEN /\ picked.extent.width = Clamp(surface.extent.width,
                        c.min_image_extent.width, c.max_image_extent.width)
                 /\ picked.extent.height = Clamp(surface.extent.height,
                        c.min_image_extent.height, c.max_image_extent.height)
            ELSE picked.extent = c.current_extent

\* the window asks for more than the surface allows, on a surface with no
\* extent of its own
ExtentSelectionWitness ==
    /\ picked.extent # NoExtent
    /\ surface.capabilities.current_extent.width = U32_MAX
    /\ surface.extent.width > surface.capabilities.max_image_extent.width
    /\ surface.extent.height < surface.capabilities.min_image_extent.height
    /\ picked.extent.width = surface.capabilities.max_image_extent.width
    /\ picked.extent.height = surface.capabilities.min_image_extent.height

\* C36: the image count that Swapchain::new asks for is 3 clamped into
\* min_image_count..max_image_count of the surface's capabilities, a
\* max_image_count of 0 being no upper limit, for every surface of a device
\* that the device selection accepts.
ImageCountClamped ==
    create_info # NoCreateInfo =>
        LET lo == support.min_image_count
            hi == IF support.max_image_count = 0 THEN MaxCount + 3
                  ELSE support.max_image_count
        IN  create_info.min_image_count = Clamp(3, lo, hi)

\* a swapchain on a surface that allows three images and no other count
ImageCountClampedWitness ==
    /\ create_info # NoCreateInfo
    /\ support.min_image_count = 3
    /\ support.max_image_count = 3

\* ------------------------------------------------------------- DescriptorSet
\* the bindings of type `ty` in the layout, times the sets
Expected(ty) ==
    Cardinality({i \in DOMAIN write_args.bindings : write_args.bindings[i] = ty})
        * write_args.sets

\* C19: when the uniform buffers, the textures or the samplers passed to
\* write are not as many as the layout's bindings of their type times the
\* sets, write returns MismatchedBinding with the expected and the supplied
\* count of a type that does not match, and makes no descriptor write;
\* otherwise it makes one write per binding and set.
WriteNeverTruncates ==
    write_result # NotCalled =>
        LET a == write_args
            wrong == {<<"UNIFORM_BUFFER", Expected("UniformBuffer"), a.buffers>>,
                      <<"COMBINED_IMAGE_SAMPLER", Expected("CombinedImageSampler"), a.textures>>,
                      <<"COMBINED_IMAGE_SAMPLER", Expected("CombinedImageSampler"), a.samplers>>}
        IN  IF \E m \in wrong : m[2] # m[3]
            THEN /\ write_result.err = "MismatchedBinding"
                 /\ write_result.writes = <<>>
                 /\ \E m \in wrong :
                        /\ m[2] # m[3]
                        /\ write_result.ty = m[1]
                        /\ write_result.expected = m[2]
                        /\ write_result.supplied = m[3]
            ELSE /\ write_result.err = "none"
                 /\ Len(write_result.writes) = Len(a.bindings) * a.sets

\* only the samplers are too few
WriteNeverTruncatesWitness ==
    /\ write_result.err = "MismatchedBinding"
    /\ write_args.buffers = Expected("UniformBuffer")
    /\ write_args.textures = Expected("CombinedImageSampler")
    /\ write_args.samplers < write_args.textures
    /\ write_result.supplied = write_args.samplers

\* ----------------------------------------------------------- ComponentArray
\* C20: get_component(e) returns the component last inserted for e and not
\* removed since, or None; remove_component(e) returns that component as
\* well, and insert_component(e, c) the component it replaces; no call
\* panics.
LookupStableAcrossRemovals ==
    array_ret.op # "new" =>
        /\ ~array_ret.panicked
        /\ array_ret.res = array_ret.expected

\* ------------------------------------------------------------ EntityManager
\* C37: create_entity never returns the id of an entity that is alive,
\* created and not destroyed since.
UniqueLiveIds ==
    entity_last.op = "create_entity" => ~entity_last.was_alive

\* -------------------------------------------------------------------- Timer
\* C21: restart on a timer that is not stopped leaves start, stopped, the
\* duration and the answers of signaled and remaining as they were; on a
\* stopped timer it leaves the timer running with duration 0, signaled only
\* when the target is 0.
RestartOnlyResumes ==
    [][timer_last'.op = "restart" =>
        IF timer.stopped = NoDuration
        THEN /\ timer' = timer
             /\ duration(timer', clock') = duration(timer, clock)
             /\ signaled(timer', clock') = signaled(timer, clock)
             /\ remaining(timer', clock') = remaining(timer, clock)
        ELSE /\ timer'.stopped = NoDuration
             /\ duration(timer', clock') = 0
             /\ signaled(timer', clock') = (timer.target = 0)]_vars

====
